---- MODULE Spec2Model ----
\* Verification model of the risk + execution kernel of ftmo_bot:
\* rule engine, risk governor, order journal, execution engine,
\* safe-mode latch and the bar task of the service loop.
\*
\* Money is in whole account units, fractions (stop percentages, drawdown
\* limit) are in percent, instants are minutes on the civil clock of the rule
\* spec's timezone (a fixed-offset zone: local midnight is every multiple of
\* MinutesPerDay).
EXTENDS Integers, Sequences, FiniteSets, TLC

\* ---------------------------------------------------------------------------
\* Optional values
\* ---------------------------------------------------------------------------

\* None of an Optional[datetime], Optional[float] or Optional[int]
None == -1

\* None of an Optional[str]
NoneStr == "None"

\* ---------------------------------------------------------------------------
\* Time helpers (rule_engine/time.py)
\* ---------------------------------------------------------------------------

MinutesPerDay == 1440

day_start_for(now) == now - (now % MinutesPerDay)

needs_day_reset(now, day_start_time) == day_start_for(now) > day_start_time

trading_day_for(timestamp) == timestamp \div MinutesPerDay

next_midnight(now) == (trading_day_for(now) + 1) * MinutesPerDay

Max(a, b) == IF a >= b THEN a ELSE b

minutes_until_midnight(now) == Max(0, next_midnight(now) - now)

in_midnight_window(now, window_minutes) ==
    IF window_minutes <= 0 THEN FALSE
    ELSE minutes_until_midnight(now) <= window_minutes

\* ---------------------------------------------------------------------------
\* RuleSpec (rule_engine/models.py)
\* ---------------------------------------------------------------------------

MidnightPolicies == {"none", "buffer", "reduce", "flatten"}

\* The limits of the governor tests scaled down by 100: account 1000, daily
\* loss 50 and total loss 100 with stops at 80%, a 60 minute midnight window
\* with multiplier 2.
BaseRuleSpec ==
    [ account_size |-> 1000,
      max_daily_loss |-> 50,
      max_total_loss |-> 100,
      daily_loss_buffer |-> 0,
      max_loss_buffer |-> 0,
      daily_loss_stop_pct |-> 80,
      max_loss_stop_pct |-> 80,
      midnight_policy |-> "none",
      midnight_window_minutes |-> 60,
      midnight_buffer_multiplier |-> 2,
      max_days_without_trade |-> 2,
      drawdown_limit_pct |-> 7,
      drawdown_days_limit |-> 1,
      challenge_profit_target |-> 60,
      verification_profit_target |-> 30,
      min_trading_days |-> 2,
      mtm_mode |-> "worst_ohlc",
      fees |-> [symbol \in {"EURUSD", "GBPUSD"} |->
                   [commission_usd_per_lot_round_trip |-> 0,
                    swap_usd_per_lot_per_day |-> 0]],
      stage |-> "challenge",
      funded_mode |-> "standard",
      strategy_is_legit |-> TRUE ]

\* The rule specifications of the model: every midnight policy, a forbidden
\* strategy, a funded standard account (the news policy applies).
RuleSpecs ==
    { [BaseRuleSpec EXCEPT !.midnight_policy = mp] : mp \in MidnightPolicies }
    \cup { [BaseRuleSpec EXCEPT !.strategy_is_legit = FALSE],
           [BaseRuleSpec EXCEPT !.stage = "funded"] }

profit_target(sp) ==
    IF sp.stage = "verification" THEN sp.verification_profit_target
    ELSE IF sp.stage = "challenge" THEN sp.challenge_profit_target
    ELSE 0

news_policy(sp) ==
    IF sp.stage # "funded" THEN "ignore"
    ELSE IF sp.funded_mode = "swing" THEN "ignore"
    ELSE "apply"

\* a buffer of max_daily_loss * daily_loss_stop_pct (mutation of
\* effective_daily_buffer)
effective_daily_buffer_inverted(sp) ==
    LET pct_buffer == IF sp.daily_loss_stop_pct # None
                      THEN Max(0, (sp.max_daily_loss * sp.daily_loss_stop_pct) \div 100)
                      ELSE 0
    IN Max(sp.daily_loss_buffer, pct_buffer)

\* max_daily_loss * (1.0 - daily_loss_stop_pct), the percentage in percent;
\* the specs of the model make the division exact.
effective_daily_buffer(sp) ==
    LET pct_buffer == IF sp.daily_loss_stop_pct # None
                      THEN Max(0, (sp.max_daily_loss * (100 - sp.daily_loss_stop_pct)) \div 100)
                      ELSE 0
    IN Max(sp.daily_loss_buffer, pct_buffer)

effective_max_buffer(sp) ==
    LET pct_buffer == IF sp.max_loss_stop_pct # None
                      THEN Max(0, (sp.max_total_loss * (100 - sp.max_loss_stop_pct)) \div 100)
                      ELSE 0
    IN Max(sp.max_loss_buffer, pct_buffer)

midnight_buffer(sp) ==
    LET multiplier == Max(1, sp.midnight_buffer_multiplier)
    IN <<effective_daily_buffer(sp) * multiplier, effective_max_buffer(sp) * multiplier>>

\* ---------------------------------------------------------------------------
\* RuleState (rule_engine/models.py)
\* ---------------------------------------------------------------------------

effective_equity(s) ==
    LET costs == s.commission + s.swap + s.other_fees
    IN IF s.floating_pnl # 0 \/ costs # 0
       THEN s.balance + s.floating_pnl - costs
       ELSE s.equity

SetMax(S) == CHOOSE x \in S : \A y \in S : y <= x

\* s.trades holds the entry_time of every Trade of the list
last_trade_timestamp(s) ==
    IF s.last_trade_time # None THEN s.last_trade_time
    ELSE IF s.trades = {} THEN None
    ELSE SetMax(s.trades)

days_since_last_trade(s) ==
    LET last_trade == IF last_trade_timestamp(s) # None
                      THEN last_trade_timestamp(s)
                      ELSE s.stage_start_time
    IN IF last_trade = None THEN None
       ELSE trading_day_for(s.now) - trading_day_for(last_trade)

\* max(0, (initial_balance - equity) / initial_balance) >= limit_pct, with the
\* limit in whole percent: the comparison is made on the cross product, so no
\* rounding enters.
drawdown_reached(s, limit_pct) ==
    IF s.initial_balance <= 0 THEN 0 >= limit_pct
    ELSE Max(0, s.initial_balance - effective_equity(s)) * 100 >= limit_pct * s.initial_balance

\* a drawdown start that is moved to now on every evaluation at or past the
\* limit (mutation of update_drawdown_start)
update_drawdown_start_restart(s, limit_pct) ==
    IF limit_pct > 0 /\ drawdown_reached(s, limit_pct)
    THEN [s EXCEPT !.drawdown_start_time = s.now]
    ELSE [s EXCEPT !.drawdown_start_time = None]


update_drawdown_start(s, limit_pct) ==
    IF limit_pct <= 0 THEN [s EXCEPT !.drawdown_start_time = None]
    ELSE IF drawdown_reached(s, limit_pct)
         THEN IF s.drawdown_start_time = None
              THEN [s EXCEPT !.drawdown_start_time = s.now]
              ELSE s
         ELSE [s EXCEPT !.drawdown_start_time = None]

drawdown_days(s) ==
    IF s.drawdown_start_time = None THEN None
    ELSE trading_day_for(s.now) - trading_day_for(s.drawdown_start_time)

\* a day roll that restarts the day from the raw equity field (mutation of
\* roll_day_if_needed)
roll_day_raw_equity(s) ==
    IF needs_day_reset(s.now, s.day_start_time)
    THEN [s EXCEPT !.day_start_time = day_start_for(s.now),
                   !.day_start_equity = s.equity]
    ELSE s


roll_day_if_needed(s) ==
    IF needs_day_reset(s.now, s.day_start_time)
    THEN [s EXCEPT !.day_start_time = day_start_for(s.now),
                   !.day_start_equity = effective_equity(s)]
    ELSE s

\* ---------------------------------------------------------------------------
\* Rule engine (rule_engine/engine.py)
\* ---------------------------------------------------------------------------

\* a remaining daily loss that is still positive at the limit (mutation of
\* remaining_daily_loss)
remaining_daily_loss_exclusive(equity, day_start_equity, max_daily_loss) ==
    LET daily_loss == Max(0, day_start_equity - equity)
    IN max_daily_loss - daily_loss + 1

remaining_daily_loss(equity, day_start_equity, max_daily_loss) ==
    LET daily_loss == Max(0, day_start_equity - equity)
    IN max_daily_loss - daily_loss

remaining_max_loss(equity, initial_balance, max_total_loss) ==
    LET total_loss == Max(0, initial_balance - equity)
    IN max_total_loss - total_loss

ViolationMessage(code) ==
    CASE code = "STRATEGY_FORBIDDEN" -> "Strategy flagged as not legitimate or forbidden."
      [] code = "DAILY_LOSS_LIMIT" -> "Max daily loss breached."
      [] code = "MAX_LOSS_LIMIT" -> "Max loss breached."
      [] code = "INACTIVITY_LIMIT" -> "Inactivity limit exceeded."
      [] code = "INTERNAL_DRAWDOWN_LIMIT" -> "Internal drawdown limit breached."
      [] code = "PROLONGED_DRAWDOWN" -> "Drawdown duration exceeded limit."

\* a check_violation that reads drawdown_start_time as the caller left it
\* (mutation of check_violation_state)
check_violation_state_stale(sp, s) == s

\* the RuleState as check_violation leaves it: it recomputes the drawdown origin
check_violation_state(sp, s) == update_drawdown_start(s, sp.drawdown_limit_pct)

\* the violation codes, in the order check_violation appends them
check_violation(sp, s) ==
    LET st == check_violation_state(sp, s)
        equity == effective_equity(st)
        remaining_daily == remaining_daily_loss(equity, st.day_start_equity, sp.max_daily_loss)
        remaining_total == remaining_max_loss(equity, st.initial_balance, sp.max_total_loss)
        v1 == IF ~sp.strategy_is_legit THEN <<"STRATEGY_FORBIDDEN">> ELSE <<>>
        v2 == IF remaining_daily <= 0 THEN <<"DAILY_LOSS_LIMIT">> ELSE <<>>
        v3 == IF remaining_total <= 0 THEN <<"MAX_LOSS_LIMIT">> ELSE <<>>
        v4 == IF /\ sp.max_days_without_trade > 0
                 /\ days_since_last_trade(st) # None
                 /\ days_since_last_trade(st) >= sp.max_days_without_trade
              THEN <<"INACTIVITY_LIMIT">> ELSE <<>>
        v5 == IF sp.drawdown_limit_pct > 0 /\ drawdown_reached(st, sp.drawdown_limit_pct)
              THEN <<"INTERNAL_DRAWDOWN_LIMIT">> ELSE <<>>
        v6 == IF /\ sp.drawdown_days_limit > 0
                 /\ drawdown_days(st) # None
                 /\ drawdown_days(st) >= sp.drawdown_days_limit
              THEN <<"PROLONGED_DRAWDOWN">> ELSE <<>>
    IN v1 \o v2 \o v3 \o v4 \o v5 \o v6

PreTradeResult(allow, reason) == [allow |-> allow, reason |-> reason]

\* a check that admits an order whose risk equals the remaining loss
\* (mutation of pre_trade_check)
pre_trade_check_lax(sp, order_intent, s) ==
    LET equity == effective_equity(s)
        remaining_daily == remaining_daily_loss(equity, s.day_start_equity, sp.max_daily_loss)
        remaining_total == remaining_max_loss(equity, s.initial_balance, sp.max_total_loss)
    IN IF ~sp.strategy_is_legit
       THEN PreTradeResult(FALSE, "Strategy flagged as forbidden")
       ELSE IF news_policy(sp) = "apply" /\ s.is_news_blackout
       THEN PreTradeResult(FALSE, "News restriction window active")
       ELSE IF order_intent.estimated_risk > remaining_daily
       THEN PreTradeResult(FALSE, "Order risk exceeds remaining daily loss")
       ELSE IF order_intent.estimated_risk > remaining_total
       THEN PreTradeResult(FALSE, "Order risk exceeds remaining max loss")
       ELSE PreTradeResult(TRUE, "Allowed")

pre_trade_check(sp, order_intent, s) ==
    LET equity == effective_equity(s)
        remaining_daily == remaining_daily_loss(equity, s.day_start_equity, sp.max_daily_loss)
        remaining_total == remaining_max_loss(equity, s.initial_balance, sp.max_total_loss)
    IN IF ~sp.strategy_is_legit
       THEN PreTradeResult(FALSE, "Strategy flagged as forbidden")
       ELSE IF news_policy(sp) = "apply" /\ s.is_news_blackout
       THEN PreTradeResult(FALSE, "News restriction window active")
       ELSE IF remaining_daily <= 0
       THEN PreTradeResult(FALSE, "Daily loss limit reached")
       ELSE IF remaining_total <= 0
       THEN PreTradeResult(FALSE, "Max loss limit reached")
       ELSE IF order_intent.estimated_risk >= remaining_daily
       THEN PreTradeResult(FALSE, "Order risk exceeds remaining daily loss")
       ELSE IF order_intent.estimated_risk >= remaining_total
       THEN PreTradeResult(FALSE, "Order risk exceeds remaining max loss")
       ELSE PreTradeResult(TRUE, "Allowed")

\* ---------------------------------------------------------------------------
\* Risk governor (risk/governor.py)
\* ---------------------------------------------------------------------------

RiskDecision(allow, reason, flatten, reduce_only) ==
    [allow |-> allow, reason |-> reason, flatten |-> flatten, reduce_only |-> reduce_only]

\* no decision held
NoDecision == RiskDecision(FALSE, NoneStr, FALSE, FALSE)

\* the governor object: _disabled and _disable_reason
NewGovernor == [disabled |-> FALSE, disable_reason |-> NoneStr]

disable(g, reason) == [disabled |-> TRUE, disable_reason |-> reason]

reset_disable(g) == [disabled |-> FALSE, disable_reason |-> NoneStr]

rule_headroom(sp, s) ==
    LET equity == effective_equity(s)
    IN [daily |-> remaining_daily_loss(equity, s.day_start_equity, sp.max_daily_loss),
        max |-> remaining_max_loss(equity, s.initial_balance, sp.max_total_loss)]

\* buffers that ignore the midnight policy (mutation of effective_buffers)
effective_buffers_unmultiplied(sp, s) ==
    [daily_buffer |-> effective_daily_buffer(sp),
     max_buffer |-> effective_max_buffer(sp),
     in_window |-> in_midnight_window(s.now, sp.midnight_window_minutes)]

\* (daily_buffer, max_buffer, in_window)
effective_buffers(sp, s) ==
    LET in_window == in_midnight_window(s.now, sp.midnight_window_minutes)
    IN IF in_window /\ sp.midnight_policy = "buffer"
       THEN [daily_buffer |-> midnight_buffer(sp)[1],
             max_buffer |-> midnight_buffer(sp)[2],
             in_window |-> in_window]
       ELSE [daily_buffer |-> effective_daily_buffer(sp),
             max_buffer |-> effective_max_buffer(sp),
             in_window |-> in_window]

\* a governor whose disabled branch answers from the account state again
DisabledDecisionRegress(g) == RiskDecision(TRUE, "Healthy", FALSE, FALSE)

\* evaluate_state, the branch taken by a disabled governor
DisabledDecision(g) ==
    LET reason == IF g.disable_reason = NoneStr \/ g.disable_reason = ""
                  THEN "Trading disabled" ELSE g.disable_reason
    IN RiskDecision(FALSE, reason, TRUE, FALSE)

\* a governor that reports the last violation of the list instead of the first
ViolationReasonLast(violations) == ViolationMessage(violations[Len(violations)])

\* evaluate_state, the reason of the latch set by a non-empty violation list
ViolationReason(violations) == ViolationMessage(violations[1])

\* evaluate_state, the branches of a governor that is not disabled and whose
\* state (already rolled) has no violation and no hard limit reached
BufferDecision(sp, s) ==
    LET headroom == rule_headroom(sp, s)
        b == effective_buffers(sp, s)
    IN IF b.in_window /\ sp.midnight_policy = "flatten"
       THEN RiskDecision(FALSE, "Midnight flatten policy active", TRUE, FALSE)
       ELSE IF b.in_window /\ sp.midnight_policy = "reduce"
       THEN RiskDecision(FALSE, "Midnight reduce-only policy active", FALSE, TRUE)
       ELSE IF headroom.daily <= b.daily_buffer
       THEN RiskDecision(FALSE, "Daily loss buffer reached", FALSE, FALSE)
       ELSE IF headroom.max <= b.max_buffer
       THEN RiskDecision(FALSE, "Max loss buffer reached", FALSE, FALSE)
       ELSE RiskDecision(TRUE, "Healthy", FALSE, FALSE)

\* evaluate_state(state): the governor, the RuleState (which it mutates) and
\* the decision it returns
evaluate_state(sp, g, s) ==
    LET s1 == update_drawdown_start(roll_day_if_needed(s), sp.drawdown_limit_pct)
        violations == check_violation(sp, s1)
        s2 == check_violation_state(sp, s1)
        headroom == rule_headroom(sp, s2)
    IN IF g.disabled
       THEN [gov |-> g, state |-> s1, decision |-> DisabledDecision(g)]
       ELSE IF violations # <<>>
       THEN [gov |-> disable(g, ViolationReason(violations)), state |-> s2,
             decision |-> RiskDecision(FALSE, ViolationReason(violations), TRUE, FALSE)]
       ELSE IF headroom.daily <= 0 \/ headroom.max <= 0
       THEN [gov |-> disable(g, "Hard limit reached"), state |-> s2,
             decision |-> RiskDecision(FALSE, "Hard limit reached", TRUE, FALSE)]
       ELSE [gov |-> g, state |-> s2, decision |-> BufferDecision(sp, s2)]

\* a pre_trade without the override (mutation of ReduceOnlyOverride)
ReduceOnlyOverrideNever(order_intent, state_check) == FALSE

\* pre_trade, the override that admits a reduce-only intent although
\* evaluate_state denied
ReduceOnlyOverride(order_intent, state_check) ==
    order_intent.reduce_only /\ (state_check.reduce_only \/ state_check.flatten)

\* an admission without the two buffer-margin checks (mutation of
\* AdmissionDecision)
AdmissionDecisionNoMargin(sp, order_intent, s) ==
    LET pre_trade == pre_trade_check(sp, order_intent, s)
    IN IF ~pre_trade.allow
       THEN RiskDecision(FALSE, pre_trade.reason, FALSE, FALSE)
       ELSE IF order_intent.reduce_only
       THEN RiskDecision(TRUE, "Allowed reduce-only", FALSE, TRUE)
       ELSE RiskDecision(TRUE, "Allowed", FALSE, FALSE)

\* pre_trade, after evaluate_state allowed
AdmissionDecision(sp, order_intent, s) ==
    LET pre_trade == pre_trade_check(sp, order_intent, s)
        headroom == rule_headroom(sp, s)
        b == effective_buffers(sp, s)
    IN IF ~pre_trade.allow
       THEN RiskDecision(FALSE, pre_trade.reason, FALSE, FALSE)
       ELSE IF order_intent.reduce_only
       THEN RiskDecision(TRUE, "Allowed reduce-only", FALSE, TRUE)
       ELSE IF order_intent.estimated_risk >= headroom.daily - b.daily_buffer
       THEN RiskDecision(FALSE, "Order would breach daily buffer", FALSE, FALSE)
       ELSE IF order_intent.estimated_risk >= headroom.max - b.max_buffer
       THEN RiskDecision(FALSE, "Order would breach max buffer", FALSE, FALSE)
       ELSE RiskDecision(TRUE, "Allowed", FALSE, FALSE)

\* pre_trade(order_intent, state)
pre_trade(sp, g, order_intent, s) ==
    LET r == evaluate_state(sp, g, s)
        state_check == r.decision
    IN IF ~state_check.allow
       THEN IF ReduceOnlyOverride(order_intent, state_check)
            THEN [r EXCEPT !.decision =
                     RiskDecision(TRUE, "Reduce-only allowed", state_check.flatten, TRUE)]
            ELSE r
       ELSE [r EXCEPT !.decision = AdmissionDecision(sp, order_intent, r.state)]

\* ---------------------------------------------------------------------------
\* Order journal (execution/journal.py): the rows of table orders, in rowid order
\* ---------------------------------------------------------------------------

\* the payload {} that reconcile records
EmptyPayload == [k \in {} |-> None]

\* a datetime held by a payload dict, and the str() of that datetime
PyDatetime(t) == [py |-> "datetime", at |-> t]

PyStr(t) == [py |-> "str", at |-> t]

\* json.dumps(payload, default=str), the TEXT of column payload: every value
\* json cannot encode (the datetime under "time") is written as its str()
json_dumps(payload) ==
    [text |-> IF "time" \in DOMAIN payload /\ payload.time = PyDatetime(payload.time.at)
              THEN [payload EXCEPT !.time = PyStr(@.at)]
              ELSE payload]

\* json.loads(row[3])
json_loads(text) == text.text

JournalRow(client_order_id, broker_order_id, status, payload) ==
    [client_order_id |-> client_order_id, broker_order_id |-> broker_order_id,
     status |-> status, payload |-> payload]

\* get() returning None
NoRow == JournalRow(NoneStr, NoneStr, NoneStr, EmptyPayload)

JournalHas(j, client_order_id) ==
    \E i \in 1..Len(j) : j[i].client_order_id = client_order_id

\* JournalEntry(..., payload=json.loads(row[3]), ...)
JournalEntry(row) == [row EXCEPT !.payload = json_loads(@)]

\* SELECT ... WHERE client_order_id = ? (fetchone)
JournalGet(j, client_order_id) ==
    IF JournalHas(j, client_order_id)
    THEN JournalEntry(j[CHOOSE i \in 1..Len(j) :
               /\ j[i].client_order_id = client_order_id
               /\ \A k \in 1..(i - 1) : j[k].client_order_id # client_order_id])
    ELSE NoRow

\* an INSERT OR REPLACE (mutation of record_intent)
record_intent_replace(j, client_order_id, payload) ==
    [journal |-> [i \in 1..Len(j) |->
                     IF j[i].client_order_id = client_order_id
                     THEN JournalRow(client_order_id, NoneStr, "intent", json_dumps(payload))
                     ELSE j[i]]
                 \o (IF JournalHas(j, client_order_id) THEN <<>>
                     ELSE <<JournalRow(client_order_id, NoneStr, "intent",
                                       json_dumps(payload))>>),
     ok |-> TRUE]

\* INSERT INTO orders: the PRIMARY KEY on client_order_id makes a second insert
\* raise IntegrityError, which record_intent answers with False
record_intent(j, client_order_id, payload) ==
    IF JournalHas(j, client_order_id)
    THEN [journal |-> j, ok |-> FALSE]
    ELSE [journal |-> Append(j, JournalRow(client_order_id, NoneStr, "intent",
                                           json_dumps(payload))),
          ok |-> TRUE]

\* a mark_submitted that forgets the broker's id (mutation of mark_submitted)
mark_submitted_status_only(j, client_order_id, broker_order_id) ==
    [i \in 1..Len(j) |->
        IF j[i].client_order_id = client_order_id
        THEN [j[i] EXCEPT !.status = "submitted"]
        ELSE j[i]]

\* UPDATE orders SET broker_order_id = ?, status = 'submitted' WHERE client_order_id = ?
mark_submitted(j, client_order_id, broker_order_id) ==
    [i \in 1..Len(j) |->
        IF j[i].client_order_id = client_order_id
        THEN [j[i] EXCEPT !.broker_order_id = broker_order_id, !.status = "submitted"]
        ELSE j[i]]

\* an UPDATE that matches no row (mutation of mark_status)
mark_status_no_row(j, client_order_id, status) == j

\* UPDATE orders SET status = ? WHERE client_order_id = ?
mark_status(j, client_order_id, status) ==
    [i \in 1..Len(j) |->
        IF j[i].client_order_id = client_order_id
        THEN [j[i] EXCEPT !.status = status]
        ELSE j[i]]

OpenStatuses == {"intent", "submitted", "open", "partial"}

IsOpenRow(row) == row.status \in OpenStatuses

list_open(j) ==
    LET rows == SelectSeq(j, IsOpenRow)
    IN [i \in 1..Len(rows) |-> JournalEntry(rows[i])]

\* ---------------------------------------------------------------------------
\* Paper broker (execution/paper.py)
\* ---------------------------------------------------------------------------

BrokerOrder(broker_order_id, client_order_id, status) ==
    [broker_order_id |-> broker_order_id, client_order_id |-> client_order_id,
     status |-> status]

NoBrokerOrder == BrokerOrder(NoneStr, NoneStr, NoneStr)

PaperBroker(fill_on_place) ==
    [fill_on_place |-> fill_on_place, orders |-> <<>>, counter |-> 0]

BrokerHas(b, client_order_id) ==
    \E i \in 1..Len(b.orders) : b.orders[i].client_order_id = client_order_id

BrokerGet(b, client_order_id) ==
    b.orders[CHOOSE i \in 1..Len(b.orders) : b.orders[i].client_order_id = client_order_id]

\* f"paper-{self._counter}"
PaperId(n) == <<"paper", n>>

\* PaperBroker.place_order: the broker after the call and the BrokerOrder returned
paper_place_order(b, order) ==
    IF BrokerHas(b, order.client_order_id)
    THEN [broker |-> b, broker_order |-> BrokerGet(b, order.client_order_id)]
    ELSE LET status == IF b.fill_on_place THEN "filled" ELSE "submitted"
             bo == BrokerOrder(PaperId(b.counter + 1), order.client_order_id, status)
         IN [broker |-> [b EXCEPT !.counter = b.counter + 1,
                                   !.orders = Append(b.orders, bo)],
             broker_order |-> bo]

IsOpenAtBroker(bo) == bo.status \in {"submitted", "open"}

list_open_orders(b) == SelectSeq(b.orders, IsOpenAtBroker)

\* A broker that answers every order with one status and keeps no order, as
\* RejectBroker and PartialBroker of tests/test_execution_redteam.py do
StatusBroker(status) == [answers |-> status, orders |-> <<>>]

\* RejectBroker.place_order, PartialBroker.place_order: "reject-1", "partial-1"
status_place_order(b, order) ==
    [broker |-> b,
     broker_order |-> BrokerOrder(<<b.answers, 1>>, order.client_order_id, b.answers)]

\* self.broker.place_order(order), by the class of the broker
broker_place_order(b, order) ==
    IF "answers" \in DOMAIN b
    THEN status_place_order(b, order)
    ELSE paper_place_order(b, order)

\* ---------------------------------------------------------------------------
\* Request throttle (execution/throttle.py)
\* ---------------------------------------------------------------------------

max_requests_per_day == 1

max_modifications_per_minute == 60

min_seconds_between_requests == 0

RequestThrottle ==
    [day_start |-> None, daily_count |-> 0, mod_minute_start |-> None,
     mod_count |-> 0, last_request_time |-> None]

ThrottleDecision(allow, reason) == [allow |-> allow, reason |-> reason]

\* an allow that never starts a new day (mutation of throttle_allow)
throttle_allow_one_day(th, kind, now) ==
    LET th1 == IF th.day_start = None
               THEN [th EXCEPT !.day_start = day_start_for(now), !.daily_count = 0]
               ELSE th
    IN IF max_requests_per_day > 0 /\ th1.daily_count >= max_requests_per_day
       THEN [throttle |-> th1, decision |-> [allow |-> FALSE,
                                             reason |-> "Daily request cap reached"]]
       ELSE [throttle |-> [th1 EXCEPT !.daily_count = th1.daily_count + 1,
                                      !.last_request_time = now,
                                      !.mod_count = IF kind \in {"modify", "cancel"}
                                                    THEN th1.mod_count + 1
                                                    ELSE th1.mod_count],
             decision |-> [allow |-> TRUE, reason |-> "Allowed"]]

\* RequestThrottle.allow(kind, now), now in minutes: the throttle after the
\* call and its decision
throttle_allow(th, kind, now) ==
    LET day_start == day_start_for(now)
        th1 == IF th.day_start = None \/ day_start > th.day_start
               THEN [th EXCEPT !.day_start = day_start, !.daily_count = 0]
               ELSE th
        is_mod == kind \in {"modify", "cancel"} /\ max_modifications_per_minute > 0
        th2 == IF is_mod /\ (th1.mod_minute_start = None \/ now - th1.mod_minute_start >= 1)
               THEN [th1 EXCEPT !.mod_minute_start = now, !.mod_count = 0]
               ELSE th1
    IN IF max_requests_per_day > 0 /\ th1.daily_count >= max_requests_per_day
       THEN [throttle |-> th1, decision |-> ThrottleDecision(FALSE, "Daily request cap reached")]
       ELSE IF /\ min_seconds_between_requests > 0
               /\ th1.last_request_time # None
               /\ (now - th1.last_request_time) * 60 < min_seconds_between_requests
       THEN [throttle |-> th1, decision |-> ThrottleDecision(FALSE, "Request rate too high")]
       ELSE IF is_mod /\ th2.mod_count >= max_modifications_per_minute
       THEN [throttle |-> th2, decision |-> ThrottleDecision(FALSE, "Modification rate cap reached")]
       ELSE [throttle |-> [th2 EXCEPT !.daily_count = th2.daily_count + 1,
                                      !.last_request_time = now,
                                      !.mod_count = IF kind \in {"modify", "cancel"}
                                                    THEN th2.mod_count + 1
                                                    ELSE th2.mod_count],
             decision |-> ThrottleDecision(TRUE, "Allowed")]

\* ---------------------------------------------------------------------------
\* Execution engine (execution/engine.py)
\* ---------------------------------------------------------------------------

duplicate_window_seconds == 10

duplicate_block == TRUE

\* ExecutionEngine.__init__: the in-memory part of an engine
NewEngine == [recent_orders |-> <<>>, throttle |-> RequestThrottle]

ExecutionOrder(client_order_id, intent_id, side, time) ==
    [client_order_id |-> client_order_id, symbol |-> "EURUSD", side |-> side,
     volume |-> 1, time |-> time, price |-> None, intent_id |-> intent_id,
     strategy_id |-> "leader"]

NoOrder == ExecutionOrder(NoneStr, NoneStr, NoneStr, None)

\* dataclasses.asdict(order): the dict of the fields, time a datetime
asdict(order) == [order EXCEPT !.time = PyDatetime(@)]

\* None for an order without intent_id
duplicate_signature(order) ==
    IF order.intent_id = NoneStr THEN <<>>
    ELSE <<order.intent_id, order.strategy_id, order.symbol, order.side,
           order.volume, order.price>>

IsRecent(cutoff, entry) == ~(entry[1] < cutoff)

\* while self._recent_orders and self._recent_orders[0][0] < cutoff: popleft()
RECURSIVE DropExpired(_, _)
DropExpired(recent, cutoff) ==
    IF recent # <<>> /\ recent[1][1] < cutoff
    THEN DropExpired(Tail(recent), cutoff)
    ELSE recent

\* _check_duplicate(order) at wall-clock second now: the deque after the call
\* and whether it raised "Duplicate order detected"
check_duplicate(recent_orders, order, now) ==
    IF duplicate_window_seconds <= 0
    THEN [recent_orders |-> recent_orders, raised |-> FALSE]
    ELSE LET kept == DropExpired(recent_orders, now - duplicate_window_seconds)
             signature == duplicate_signature(order)
             seen == \E i \in 1..Len(kept) : kept[i][2] = signature
         IN IF signature = <<>>
            THEN [recent_orders |-> kept, raised |-> FALSE]
            ELSE IF seen /\ duplicate_block
            THEN [recent_orders |-> kept, raised |-> TRUE]
            ELSE [recent_orders |-> Append(kept, <<now, signature>>), raised |-> FALSE]

\* ---------------------------------------------------------------------------
\* Safe-mode latch (runtime/safe_mode.py)
\* ---------------------------------------------------------------------------

SafeModeState(enabled, reason, since) ==
    [enabled |-> enabled, reason |-> reason, since |-> since]

\* the path does not exist
NoFile == [kind |-> "missing"]

\* the file as open(path, "w") leaves it before the text is written
EmptyFile == [kind |-> "empty"]

\* datetime.isoformat and datetime.fromisoformat
isoformat(t) == <<"iso", t>>

fromisoformat(s) == s[2]

\* _save_state: the JSON text written for a state
save_state(st) ==
    [kind |-> "json", enabled |-> st.enabled, reason |-> st.reason,
     since |-> IF st.since # None THEN isoformat(st.since) ELSE NoneStr]

\* json.loads raises on the file
Unreadable(file) == file.kind = "empty"

\* a _load_state that ignores the file (mutation of load_state)
load_state_fresh(file) == SafeModeState(FALSE, NoneStr, None)

\* _load_state on a missing or readable file
load_state(file) ==
    IF file.kind = "missing"
    THEN SafeModeState(FALSE, NoneStr, None)
    ELSE SafeModeState(file.enabled, file.reason,
                       IF file.since # NoneStr THEN fromisoformat(file.since) ELSE None)

\* SafeModeController.__init__ on a readable file
NewSafeMode(latched, file) ==
    [latched |-> latched, state |-> load_state(file), pc |-> "idle", up |-> TRUE]

\* the constructor raised: no controller
NoSafeMode(latched) ==
    [latched |-> latched, state |-> SafeModeState(FALSE, NoneStr, None),
     pc |-> "idle", up |-> FALSE]

\* enable() never returns early (mutation of LatchedNoop)
LatchedNoopNever(sm) == FALSE

\* if self._state.enabled and self.latched: return
LatchedNoop(sm) == sm.state.enabled /\ sm.latched

\* ---------------------------------------------------------------------------
\* State
\* ---------------------------------------------------------------------------

VARIABLES
    rule_spec,   \* the RuleSpec of the run (immutable)
    state,       \* the RuleState handed to the governor (the service's state_cache)
    governor,    \* RiskGovernor._disabled, _disable_reason
    decision,    \* the RiskDecision the last call returned (NoDecision once consumed)
    call,        \* the last governor call: its name, its intent, _disabled at entry
    journal,     \* the rows of the order journal (sqlite file: survives a crash)
    broker,      \* the broker's side: its orders and id counter (survives a crash)
    engine,      \* ExecutionEngine in memory: _recent_orders and the throttle
    place,       \* the bar task's position inside place_order and its locals
    recon,       \* the worker thread's position inside reconcile and its locals
    hist,        \* observations: broker.place_order invocations, returned responses
    clock,       \* wall clock in seconds (datetime.now)
    safe_mode,   \* SafeModeController in memory: latched, _state, position in enable/clear
    safe_file,   \* the safe-mode file on disk
    safe_log,    \* the "safe_mode" audit events and monitor notifications emitted
    safe_call,   \* the last call on the controller
    safe_hist,   \* observations: what enable() persisted, the first effective enable
    bar,         \* the bar task's position inside bar_loop and its locals
    svc,         \* the service: state_cache set or None, the health task's ping
    bar_hist,    \* observations of the bar task, per tick and overall
    loop,        \* AsyncServiceLoop.run_forever: stop_event, the four tasks, the caller
    loop_hist,   \* observations of the loop: callback errors, service_error events
    jcall,       \* the last call on the OrderJournal: its arguments and what it returned
    drift,       \* DriftTracker._state, its audit events, the last update(report, now)
    sim,         \* EvaluationSimulator: the locals of the simulate_* call in progress and its result
    conns        \* OrderJournal._local.conn as each thread sees it: the thread that
                 \* created the sqlite connection, or None

govVars == <<rule_spec, state, governor, decision, call>>

execVars == <<journal, broker, engine, place, recon, hist, clock>>

safeVars == <<safe_mode, safe_file, safe_log, safe_call, safe_hist>>

barVars == <<bar, svc, bar_hist>>

loopVars == <<loop, loop_hist>>

journalVars == <<jcall>>

driftVars == <<drift>>

connVars == <<conns>>

simVars == <<sim>>

\* what the governor's actions leave alone
nonGovVars == <<journal, broker, engine, place, recon, hist, clock,
                safe_mode, safe_file, safe_log, safe_call, safe_hist,
                bar, svc, bar_hist, loop, loop_hist, jcall, drift, conns, sim>>

\* what the execution engine's actions leave alone
nonExecVars == <<rule_spec, state, governor, decision, call,
                 safe_mode, safe_file, safe_log, safe_call, safe_hist,
                 bar, svc, bar_hist, loop, loop_hist, jcall, drift, conns, sim>>

vars == <<rule_spec, state, governor, decision, call,
          journal, broker, engine, place, recon, hist, clock,
          safe_mode, safe_file, safe_log, safe_call, safe_hist,
          bar, svc, bar_hist, loop, loop_hist, jcall, drift, conns, sim>>

\* ---------------------------------------------------------------------------
\* Values the variables hold before an engine is used
\* ---------------------------------------------------------------------------

Ids == {"A", "B"}

\* the orders the bar task builds: client_order_id = intent_id = intent.intent_id
Orders == { ExecutionOrder("A", "A", "buy", 720), ExecutionOrder("B", "B", "sell", 720) }

IdlePlace == [pc |-> "idle", order |-> NoOrder, first |-> FALSE,
              broker_order |-> NoBrokerOrder, error |-> NoneStr, log |-> <<>>]

IdleRecon == [pc |-> "idle", broker_open |-> <<>>, entries |-> <<>>, i |-> 0,
              missing_in_broker |-> <<>>, missing_in_journal |-> <<>>,
              reconciled_closed |-> <<>>, reconciled_added |-> <<>>]

NoHist ==
    [broker_calls |-> [id \in Ids |-> 0],
     calls |-> [id \in Ids |-> 0],
     first_call |-> [id \in Ids |-> "none"],
     returned |-> [id \in Ids |-> {}],
     returns |-> [id \in Ids |-> 0],
     resumed |-> [id \in Ids |-> FALSE],
     first_instance |-> [id \in Ids |-> 0],
     instance |-> 0,
     reconciles |-> 0,
     sent |-> <<>>,
     allows |-> <<>>]

NoPersisted == SafeModeState(FALSE, NoneStr, None)

NoSafeCall == [op |-> "none", reason |-> NoneStr, n |-> 0]

NoSafeHist == [persisted |-> NoPersisted, first |-> NoPersisted, restarts |-> 0]

SafeIdle ==
    /\ safe_mode = NewSafeMode(TRUE, NoFile)
    /\ safe_file = NoFile
    /\ safe_log = <<>>
    /\ safe_call = NoSafeCall
    /\ safe_hist = NoSafeHist

NoBarIntent == [intent_id |-> NoneStr, estimated_risk |-> 0, reduce_only |-> FALSE,
                side |-> NoneStr]

IdleBar == [pc |-> "idle", intents |-> <<>>, intent |-> NoBarIntent,
            decision |-> NoDecision]

NoBarHist ==
    [ticks |-> 0, tick_safe |-> FALSE, tick_pre_trades |-> 0, tick_places |-> 0,
     allowed |-> {}, restarts |-> 0, faults |-> 0]

Names == {"fast", "bar", "reconcile", "health"}

\* run_forever not called
NoLoop == [stop |-> FALSE, main |-> "none", task |-> [n \in Names |-> "none"]]

NoLoopHist ==
    [errors |-> 0, service_errors |-> <<>>, lost_pings |-> 0, pings_lost |-> 0,
     asleep_at_stop |-> FALSE]

LoopIdle ==
    /\ loop = NoLoop
    /\ loop_hist = NoLoopHist

\* ReconcileReport as update reads it
DriftReport(missing_in_broker, missing_in_journal) ==
    [missing_in_broker |-> missing_in_broker, missing_in_journal |-> missing_in_journal]

\* DriftTracker.__init__ with no state file: _state = {}, nothing logged, no
\* update made
NewDriftTracker ==
    [state |-> <<>>, log |-> <<>>, report |-> DriftReport(<<>>, <<>>),
     now |-> None, updates |-> 0, ticks |-> 0]

\* no call made on the journal yet
NoJournalCall ==
    [op |-> "none", client_order_id |-> NoneStr, payload |-> EmptyPayload,
     ok |-> FALSE, entry |-> NoRow]

JournalIdle == jcall = NoJournalCall

DriftIdle == drift = NewDriftTracker

\* the threads of the service: the one that runs the event loop and built the
\* journal, and a worker of asyncio.to_thread
Threads == {"main", "worker"}

\* OrderJournal.__init__ on the main thread: self._local = threading.local(),
\* self._conn()
ConnIdle == conns = [t \in Threads |-> IF t = "main" THEN "main" ELSE NoneStr]

\* no simulate_trades or simulate_signals call has been made
NoSim == [pc |-> "idle"]

SimIdle == sim = NoSim

BarIdle ==
    /\ bar = IdleBar
    /\ svc = [state_cache_set |-> FALSE, health |-> "idle"]
    /\ bar_hist = NoBarHist

ExecIdle ==
    /\ journal = <<>>
    /\ broker = PaperBroker(TRUE)
    /\ engine = NewEngine
    /\ place = IdlePlace
    /\ recon = IdleRecon
    /\ hist = NoHist
    /\ clock = 0

\* ---------------------------------------------------------------------------
\* The governor driven by a caller that rewrites the RuleState between calls
\* ---------------------------------------------------------------------------

\* instants: day 0 noon, day 0 23:30 (inside the 60 minute midnight window),
\* day 1 00:10, day 2 noon
Instants == {720, 1410, 1450, 3600}

\* equity the broker reports: flat, inside the
\* midnight-multiplied daily buffer, inside the daily buffer, at the daily
\* limit, past the drawdown limit, at the total limit
Equities == {1000, 970, 955, 950, 925, 900}

\* account snapshots the caller writes: the equities without costs, two
\* with accumulated commission (effective equity 965 and 950, the raw equity
\* field left at 1000 and 955), and one with an open loss and commission
\* (effective equity 950, the raw equity field left at 1000)
Snapshots ==
    { [equity |-> e, commission |-> 0, floating_pnl |-> 0] : e \in Equities }
    \cup { [equity |-> 1000, commission |-> 35, floating_pnl |-> 0],
           [equity |-> 955, commission |-> 5, floating_pnl |-> 0],
           [equity |-> 1000, commission |-> 10, floating_pnl |-> -40] }

NoIntent == [estimated_risk |-> 0, reduce_only |-> FALSE]

\* a small order, an order above the buffer margin, a reduce-only order
Intents ==
    { [estimated_risk |-> 5, reduce_only |-> FALSE],
      [estimated_risk |-> 30, reduce_only |-> FALSE],
      [estimated_risk |-> 0, reduce_only |-> TRUE] }

DisableReasons == {"operator halt"}

\* RuleState(now, equity, balance, day_start_equity, day_start_time,
\* initial_balance) with stage_start_time set, as the fast task builds it
InitialRuleState(sp, now, equity) ==
    [now |-> now, equity |-> equity, balance |-> equity,
     day_start_equity |-> equity, day_start_time |-> day_start_for(now),
     initial_balance |-> sp.account_size,
     floating_pnl |-> 0, commission |-> 0, swap |-> 0, other_fees |-> 0,
     trades |-> {}, is_news_blackout |-> FALSE, open_positions |-> 0,
     last_trade_time |-> None, stage_start_time |-> now,
     drawdown_start_time |-> None]

GovInit ==
    /\ rule_spec \in RuleSpecs
    /\ state = InitialRuleState(rule_spec, 720, rule_spec.account_size)
    /\ governor = NewGovernor
    /\ decision = NoDecision
    /\ call = [op |-> "none", intent |-> NoIntent, was_disabled |-> FALSE]
    /\ ExecIdle
    /\ SafeIdle
    /\ BarIdle
    /\ LoopIdle
    /\ JournalIdle
    /\ DriftIdle
    /\ ConnIdle
    /\ SimIdle

\* the caller writes a new account snapshot into the RuleState
UpdateState ==
    \E now \in Instants, snap \in Snapshots, news \in BOOLEAN :
        /\ now >= state.now
        /\ news => news_policy(rule_spec) = "apply"
        /\ state' = [state EXCEPT !.now = now, !.equity = snap.equity,
                                  !.balance = snap.equity,
                                  !.commission = snap.commission,
                                  !.floating_pnl = snap.floating_pnl,
                                  !.is_news_blackout = news]
        /\ call' = [op |-> "update_state", intent |-> NoIntent,
                    was_disabled |-> governor.disabled]
        /\ decision' = NoDecision
        /\ UNCHANGED <<rule_spec, governor>>
        /\ UNCHANGED nonGovVars

EvaluateState ==
    LET r == evaluate_state(rule_spec, governor, state)
    IN /\ governor' = r.gov
       /\ state' = r.state
       /\ decision' = r.decision
       /\ call' = [op |-> "evaluate_state", intent |-> NoIntent,
                   was_disabled |-> governor.disabled]
       /\ UNCHANGED rule_spec
       /\ UNCHANGED nonGovVars

PreTrade ==
    \E order_intent \in Intents :
        LET r == pre_trade(rule_spec, governor, order_intent, state)
        IN /\ governor' = r.gov
           /\ state' = r.state
           /\ decision' = r.decision
           /\ call' = [op |-> "pre_trade", intent |-> order_intent,
                       was_disabled |-> governor.disabled]
           /\ UNCHANGED rule_spec
           /\ UNCHANGED nonGovVars

Disable ==
    \E reason \in DisableReasons :
        /\ governor' = disable(governor, reason)
        /\ call' = [op |-> "disable", intent |-> NoIntent,
                    was_disabled |-> governor.disabled]
        /\ decision' = NoDecision
        /\ UNCHANGED <<rule_spec, state>>
        /\ UNCHANGED nonGovVars

ResetDisable ==
    /\ governor' = reset_disable(governor)
    /\ call' = [op |-> "reset_disable", intent |-> NoIntent,
                was_disabled |-> governor.disabled]
    /\ decision' = NoDecision
    /\ UNCHANGED <<rule_spec, state>>
    /\ UNCHANGED nonGovVars

GovNext == UpdateState \/ EvaluateState \/ PreTrade \/ Disable \/ ResetDisable

SpecGov == GovInit /\ [][GovNext]_vars

\* ---------------------------------------------------------------------------
\* Claims about the governor (checked under SpecGov)
\* ---------------------------------------------------------------------------

\* C1: once the governor is Disabled, every evaluate_state call, whatever the
\* RuleState, returns allow=false, flatten=true with the recorded reason and
\* leaves the latch and its reason as they are; the latch is released by
\* reset_disable() only.
C1_DisabledIsLatched ==
    [][ /\ (governor.disabled /\ call'.op = "evaluate_state") =>
             /\ decision' = RiskDecision(FALSE, governor.disable_reason, TRUE, FALSE)
             /\ governor' = governor
        /\ (governor.disabled /\ ~governor'.disabled) => call'.op = "reset_disable"
      ]_vars

\* C1 witness: a governor latched by a daily-loss violation was evaluated again
\* on a later civil day with the equity fully recovered, and is still Disabled.
C1_Witness ==
    /\ call.op = "evaluate_state"
    /\ call.was_disabled
    /\ governor.disabled
    /\ governor.disable_reason = "Max daily loss breached."
    /\ decision = RiskDecision(FALSE, "Max daily loss breached.", TRUE, FALSE)
    /\ effective_equity(state) >= state.initial_balance
    /\ state.day_start_time >= MinutesPerDay

ViolationOrder ==
    << "STRATEGY_FORBIDDEN", "DAILY_LOSS_LIMIT", "MAX_LOSS_LIMIT",
       "INACTIVITY_LIMIT", "INTERNAL_DRAWDOWN_LIMIT", "PROLONGED_DRAWDOWN" >>

Range(seq) == { seq[i] : i \in 1..Len(seq) }

\* the first code of the fixed order that is in the set
FirstInOrder(codes) ==
    ViolationOrder[CHOOSE i \in 1..Len(ViolationOrder) :
                       /\ ViolationOrder[i] \in codes
                       /\ \A j \in 1..(i - 1) : ViolationOrder[j] \notin codes]

\* the RuleState on which evaluate_state calls check_violation: the day rolled
\* and the drawdown origin recomputed
StateChecked(sp, s) == update_drawdown_start(roll_day_if_needed(s), sp.drawdown_limit_pct)

\* C2: an evaluate_state call on a governor that is not disabled, whose
\* check_violation is non-empty, latches the governor in that call and returns
\* allow=false, flatten=true with the message of the first violation of the
\* fixed order.
C2_ViolationDisables ==
    [][ ( /\ call'.op = "evaluate_state"
          /\ ~governor.disabled
          /\ check_violation(rule_spec, StateChecked(rule_spec, state)) # <<>> ) =>
        LET codes == Range(check_violation(rule_spec, StateChecked(rule_spec, state)))
            reason == ViolationMessage(FirstInOrder(codes))
        IN /\ governor'.disabled
           /\ governor'.disable_reason = reason
           /\ decision' = RiskDecision(FALSE, reason, TRUE, FALSE)
      ]_vars

\* C2 witness: evaluate_state found a healthy governor and a state with
\* several violations (daily loss, max loss, internal drawdown) and latched on
\* the first of them.
C2_Witness ==
    /\ call.op = "evaluate_state"
    /\ ~call.was_disabled
    /\ governor.disabled
    /\ Len(check_violation(rule_spec, state)) >= 3
    /\ decision = RiskDecision(FALSE, "Max daily loss breached.", TRUE, FALSE)

\* C3: while the governor is Disabled every decision it emits, from
\* evaluate_state or from pre_trade, for reduce-only intents too, has
\* allow=false and flatten=true.
C3_DisabledDeniesEveryIntent ==
    (governor.disabled /\ call.op \in {"evaluate_state", "pre_trade"}) =>
        (~decision.allow /\ decision.flatten)

\* the loss of the day and the loss of the account, from the effective equity
DailyLoss(s) == Max(0, s.day_start_equity - effective_equity(s))

TotalLoss(s) == Max(0, s.initial_balance - effective_equity(s))

\* C14: whenever RuleEngine.pre_trade_check allows an intent on a RuleState,
\* the estimated risk is below the remaining daily loss and below the
\* remaining max loss, both remaining amounts are positive, the strategy is
\* legit, and the state is not in a news blackout under a news policy that
\* applies (funded stage, standard mode).
C14_PreTradeCheckAllowIsSafe ==
    \A order_intent \in Intents :
        pre_trade_check(rule_spec, order_intent, state).allow =>
            LET remaining_daily == rule_spec.max_daily_loss - DailyLoss(state)
                remaining_max == rule_spec.max_total_loss - TotalLoss(state)
            IN /\ order_intent.estimated_risk < remaining_daily
               /\ order_intent.estimated_risk < remaining_max
               /\ remaining_daily > 0
               /\ remaining_max > 0
               /\ rule_spec.strategy_is_legit
               /\ ~(/\ rule_spec.stage = "funded"
                    /\ rule_spec.funded_mode = "standard"
                    /\ state.is_news_blackout)

\* C14 witness: on a funded standard account outside a news blackout, with
\* part of the daily loss used up, pre_trade reached pre_trade_check and the
\* order was let through
C14_Witness ==
    /\ call.op = "pre_trade"
    /\ decision = RiskDecision(TRUE, "Allowed", FALSE, FALSE)
    /\ pre_trade_check(rule_spec, call.intent, state).allow
    /\ call.intent.estimated_risk > 0
    /\ rule_spec.stage = "funded"
    /\ ~state.is_news_blackout
    /\ DailyLoss(state) > 0

\* the two buffer margins of pre_trade, with the buffers in force at s.now
WithinMargins(sp, order_intent, s) ==
    LET remaining_daily == sp.max_daily_loss - DailyLoss(s)
        remaining_max == sp.max_total_loss - TotalLoss(s)
        b == effective_buffers(sp, s)
    IN /\ order_intent.estimated_risk < remaining_daily - b.daily_buffer
       /\ order_intent.estimated_risk < remaining_max - b.max_buffer

Healthy == RiskDecision(TRUE, "Healthy", FALSE, FALSE)

\* C16 as stated: whenever day_start_equity - equity of the RuleState handed to
\* evaluate_state is below daily_loss_stop_pct * max_daily_loss and the
\* governor is not disabled, evaluate_state emits Healthy.
C16_BelowDailyStopIsHealthy ==
    [][(/\ call'.op = "evaluate_state"
        /\ ~governor.disabled
        /\ (state.day_start_equity - state.equity) * 100
               < rule_spec.daily_loss_stop_pct * rule_spec.max_daily_loss)
       => decision' = Healthy]_vars

\* the daily loss is below the stop of the day: daily_loss_stop_pct *
\* max_daily_loss when the percentage buffer is the one in force, and
\* max_daily_loss less the buffer in force when the money buffer is the larger
\* one or the midnight multiplier applies
BelowDailyStop(sp, s) ==
    IF in_midnight_window(s.now, sp.midnight_window_minutes) /\ sp.midnight_policy = "buffer"
    THEN DailyLoss(s) < sp.max_daily_loss - midnight_buffer(sp)[1]
    ELSE IF sp.daily_loss_stop_pct # None
            /\ sp.daily_loss_buffer * 100 <= sp.max_daily_loss * (100 - sp.daily_loss_stop_pct)
    THEN DailyLoss(s) * 100 < sp.daily_loss_stop_pct * sp.max_daily_loss
    ELSE DailyLoss(s) < sp.max_daily_loss - sp.daily_loss_buffer

\* C16 amended: on a governor that is not disabled, for the RuleState after
\* the day roll, with the daily loss taken from the effective equity: when
\* the daily loss is below the stop of the day, no violation is reported, the
\* remaining max loss is above the max buffer in force and no reduce or
\* flatten policy is inside its midnight window, evaluate_state emits Healthy
\* and does not latch.
C16_BelowDailyStopIsHealthyWhenNothingElseFires ==
    [][LET s == StateChecked(rule_spec, state)
           in_window == in_midnight_window(s.now, rule_spec.midnight_window_minutes)
       IN (/\ call'.op = "evaluate_state"
           /\ ~governor.disabled
           /\ BelowDailyStop(rule_spec, s)
           /\ check_violation(rule_spec, s) = <<>>
           /\ TotalLoss(s) < rule_spec.max_total_loss - effective_buffers(rule_spec, s).max_buffer
           /\ ~(in_window /\ rule_spec.midnight_policy \in {"reduce", "flatten"}))
          => (decision' = Healthy /\ governor' = governor)
      ]_vars

\* C16 witness: evaluate_state answered Healthy with more than half of the
\* daily loss used up
C16_Witness ==
    /\ call.op = "evaluate_state"
    /\ decision = Healthy
    /\ ~governor.disabled
    /\ DailyLoss(state) * 2 > rule_spec.max_daily_loss
    /\ DailyLoss(state) * 100 < rule_spec.daily_loss_stop_pct * rule_spec.max_daily_loss

BufferedDaily == RiskDecision(FALSE, "Daily loss buffer reached", FALSE, FALSE)

BufferedMax == RiskDecision(FALSE, "Max loss buffer reached", FALSE, FALSE)

\* the decision of a comparison of the headroom of s against the two buffers
\* scaled by k
ComparedAgainst(sp, s, k) ==
    IF sp.max_daily_loss - DailyLoss(s) <= k * effective_daily_buffer(sp) THEN BufferedDaily
    ELSE IF sp.max_total_loss - TotalLoss(s) <= k * effective_max_buffer(sp) THEN BufferedMax
    ELSE Healthy

\* C17: an evaluate_state call on a governor that is not disabled and a state
\* without violation, inside the midnight window with midnight_policy=buffer,
\* compares the headroom against the buffers multiplied by
\* max(1, midnight_buffer_multiplier): it returns allow=false, flatten=false,
\* "Daily loss buffer reached" whenever 0 < remaining_daily <= multiplier *
\* effective_daily_buffer; outside the window, and under policy none, the
\* unmultiplied buffers are compared.
C17_MidnightBufferIsMultiplied ==
    [][LET s == StateChecked(rule_spec, state)
           in_window == in_midnight_window(s.now, rule_spec.midnight_window_minutes)
           multiplier == Max(1, rule_spec.midnight_buffer_multiplier)
           remaining_daily == rule_spec.max_daily_loss - DailyLoss(s)
       IN (/\ call'.op = "evaluate_state"
           /\ ~governor.disabled
           /\ check_violation(rule_spec, s) = <<>>)
          => /\ (in_window /\ rule_spec.midnight_policy = "buffer") =>
                   /\ decision' = ComparedAgainst(rule_spec, s, multiplier)
                   /\ (/\ 0 < remaining_daily
                       /\ remaining_daily <= multiplier * effective_daily_buffer(rule_spec))
                      => decision' = BufferedDaily
             /\ (~in_window \/ rule_spec.midnight_policy = "none") =>
                   decision' = ComparedAgainst(rule_spec, s, 1)
      ]_vars

\* C17 witness: inside the window under policy buffer, evaluate_state denied on
\* a daily headroom that is above the unmultiplied buffer
C17_Witness ==
    /\ call.op = "evaluate_state"
    /\ decision = BufferedDaily
    /\ ~governor.disabled
    /\ rule_spec.midnight_policy = "buffer"
    /\ in_midnight_window(state.now, rule_spec.midnight_window_minutes)
    /\ rule_spec.max_daily_loss - DailyLoss(state) > effective_daily_buffer(rule_spec)
    /\ rule_spec.max_daily_loss - DailyLoss(state)
           <= rule_spec.midnight_buffer_multiplier * effective_daily_buffer(rule_spec)

\* the governor is not disabled and the state, once rolled, has no violation
\* and lies inside the midnight window of the given policy
InPolicyWindow(sp, g, s, policy) ==
    /\ ~g.disabled
    /\ check_violation(sp, StateChecked(sp, s)) = <<>>
    /\ sp.midnight_policy = policy
    /\ in_midnight_window(s.now, sp.midnight_window_minutes)

\* C18: inside the midnight window with midnight_policy=reduce, on a governor
\* that is not disabled and a state without violation, evaluate_state returns
\* allow=false, reduce_only=true, flatten=false and does not latch; pre_trade
\* on such a state returns allow=true, reduce_only=true for every reduce-only
\* intent and allow=false for every other intent, and does not latch either.
C18_MidnightReduceAdmitsReduceOnly ==
    [][InPolicyWindow(rule_spec, governor, state, "reduce") =>
          /\ call'.op = "evaluate_state" =>
                /\ decision' = RiskDecision(FALSE, "Midnight reduce-only policy active",
                                             FALSE, TRUE)
                /\ governor' = governor
          /\ call'.op = "pre_trade" =>
                /\ governor' = governor
                /\ IF call'.intent.reduce_only
                   THEN decision'.allow /\ decision'.reduce_only /\ ~decision'.flatten
                   ELSE ~decision'.allow
      ]_vars

\* C18 witness: inside the reduce window a reduce-only intent was admitted by
\* a governor that stays unlatched
C18_Witness ==
    /\ call.op = "pre_trade"
    /\ call.intent.reduce_only
    /\ InPolicyWindow(rule_spec, governor, state, "reduce")
    /\ decision = RiskDecision(TRUE, "Reduce-only allowed", FALSE, TRUE)

\* C19: check_violation reports DAILY_LOSS_LIMIT exactly when day_start_equity
\* less the effective equity (balance plus floating P&L less commission, swap
\* and fees when any of them is non-zero, the equity field otherwise) is at
\* least max_daily_loss; at a daily loss equal to max_daily_loss the remaining
\* daily loss is 0 and the violation is reported.
C19_DailyLossLimitIsInclusive ==
    LET costs == state.commission + state.swap + state.other_fees
        equity == IF state.floating_pnl # 0 \/ costs # 0
                  THEN state.balance + state.floating_pnl - costs
                  ELSE state.equity
        reported == "DAILY_LOSS_LIMIT" \in Range(check_violation(rule_spec, state))
    IN /\ reported <=> (state.day_start_equity - equity >= rule_spec.max_daily_loss)
       /\ (state.day_start_equity - equity = rule_spec.max_daily_loss) =>
              (remaining_daily_loss(equity, state.day_start_equity,
                                    rule_spec.max_daily_loss) = 0 /\ reported)

\* C19 witness: evaluate_state latched on the daily loss limit at a loss of
\* exactly max_daily_loss, made of an open loss and accumulated commission
C19_Witness ==
    /\ call.op = "evaluate_state"
    /\ ~call.was_disabled
    /\ governor.disable_reason = "Max daily loss breached."
    /\ state.commission > 0
    /\ state.floating_pnl < 0
    /\ state.day_start_equity - effective_equity(state) = rule_spec.max_daily_loss
    /\ "DAILY_LOSS_LIMIT" \in Range(check_violation(rule_spec, state))

\* ---------------------------------------------------------------------------
\* The execution engine: place_order on the bar task, reconcile on a worker
\* thread, over one journal file and one broker account
\* ---------------------------------------------------------------------------

MaxCallsPerOrder == 2

MaxRestarts == 1

MaxReconciles == 1

\* an order pending in the broker account that this journal never recorded
\* (MT5Broker.list_open_orders maps every pending order of the account)
ForeignOrder == BrokerOrder(<<"ticket", 7>>, "X", "open")

ExecInit ==
    /\ rule_spec = BaseRuleSpec
    /\ state = InitialRuleState(rule_spec, 720, rule_spec.account_size)
    /\ governor = NewGovernor
    /\ decision = NoDecision
    /\ call = [op |-> "none", intent |-> NoIntent, was_disabled |-> FALSE]
    /\ journal = <<>>
    /\ \E fill_on_place \in BOOLEAN, orders \in {<<>>, <<ForeignOrder>>} :
           broker = [PaperBroker(fill_on_place) EXCEPT !.orders = orders]
    /\ engine = NewEngine
    /\ place = IdlePlace
    /\ recon = IdleRecon
    /\ hist = NoHist
    /\ clock = 0
    /\ SafeIdle
    /\ BarIdle
    /\ LoopIdle
    /\ JournalIdle
    /\ DriftIdle
    /\ ConnIdle
    /\ SimIdle

\* bookkeeping of a place_order call that starts
Called(h, id) ==
    [h EXCEPT !.calls[id] = @ + 1,
              !.first_call[id] = IF h.calls[id] = 0 THEN "running" ELSE @]

\* ... that raises
Raised(h, id, first) ==
    IF first THEN [h EXCEPT !.first_call[id] = "raised"] ELSE h

\* ... that returns the BrokerOrder bo
Returned(h, id, first, bo) ==
    [h EXCEPT !.returned[id] = @ \cup {bo.broker_order_id},
              !.returns[id] = @ + 1,
              !.first_call[id] = IF first THEN "returned" ELSE @,
              !.first_instance[id] = IF first THEN h.instance ELSE @,
              !.resumed[id] = @ \/ (~first /\ h.first_call[id] = "returned"
                                     /\ h.instance # h.first_instance[id])]

\* the BrokerOrder place_order rebuilds from a journal row that has a broker id
RecordedOrder(row) == BrokerOrder(row.broker_order_id, row.client_order_id, row.status)

\* place_order, entry: journal.get, the early return, _check_duplicate
PlaceOrderCall ==
    \E order \in Orders :
        LET id == order.client_order_id
            first == hist.calls[id] = 0
            existing == JournalGet(journal, id)
            dup == check_duplicate(engine.recent_orders, order, clock)
            h == Called(hist, id)
        IN /\ place.pc = "idle"
           /\ hist.calls[id] < MaxCallsPerOrder
           /\ IF existing # NoRow /\ existing.broker_order_id # NoneStr
              THEN \* payload["symbol"] raises KeyError on the payload {}
                   /\ hist' = IF existing.payload = EmptyPayload
                               THEN Raised(h, id, first)
                               ELSE Returned(h, id, first, RecordedOrder(existing))
                   /\ UNCHANGED <<engine, place>>
              ELSE IF dup.raised
              THEN /\ hist' = Raised(h, id, first)
                   /\ engine' = [engine EXCEPT !.recent_orders = dup.recent_orders]
                   /\ UNCHANGED place
              ELSE /\ hist' = h
                   /\ engine' = [engine EXCEPT !.recent_orders = dup.recent_orders]
                   /\ place' = [pc |-> IF existing = NoRow THEN "record_intent" ELSE "throttle",
                                order |-> order, first |-> first,
                                broker_order |-> NoBrokerOrder]
           /\ UNCHANGED <<journal, broker, recon, clock>>
           /\ UNCHANGED nonExecVars

\* self.journal.record_intent(order.client_order_id, asdict(order))
PlaceRecordIntent ==
    /\ place.pc = "record_intent"
    /\ journal' = record_intent(journal, place.order.client_order_id,
                               asdict(place.order)).journal
    /\ place' = [place EXCEPT !.pc = "throttle"]
    /\ UNCHANGED <<broker, engine, recon, hist, clock>>
    /\ UNCHANGED nonExecVars

\* self._throttle("place", order.time); broker_order = self.broker.place_order(order)
PlaceSend ==
    LET id == place.order.client_order_id
        th == throttle_allow(engine.throttle, "place", place.order.time)
        sent == paper_place_order(broker, place.order)
    IN /\ place.pc = "throttle"
       /\ engine' = [engine EXCEPT !.throttle = th.throttle]
       /\ IF th.decision.allow
          THEN /\ broker' = sent.broker
               /\ hist' = [hist EXCEPT !.broker_calls[id] = @ + 1]
               /\ place' = [place EXCEPT !.pc = "mark_submitted",
                                          !.broker_order = sent.broker_order]
          ELSE /\ hist' = Raised(hist, id, place.first)
               /\ place' = IdlePlace
               /\ UNCHANGED broker
       /\ UNCHANGED <<journal, recon, clock>>
       /\ UNCHANGED nonExecVars

\* self.journal.mark_submitted(order.client_order_id, broker_order.broker_order_id)
PlaceMarkSubmitted ==
    /\ place.pc = "mark_submitted"
    /\ journal' = mark_submitted(journal, place.order.client_order_id,
                                 place.broker_order.broker_order_id)
    /\ place' = [place EXCEPT !.pc = "mark_status"]
    /\ UNCHANGED <<broker, engine, recon, hist, clock>>
    /\ UNCHANGED nonExecVars

\* the conditional mark_status and the return of broker_order
PlaceReturn ==
    LET id == place.order.client_order_id
        status == place.broker_order.status
    IN /\ place.pc = "mark_status"
       /\ journal' = IF status \in {"rejected", "canceled", "filled", "open", "partial"}
                      THEN mark_status(journal, id, status)
                      ELSE journal
       /\ hist' = Returned(hist, id, place.first, place.broker_order)
       /\ place' = IdlePlace
       /\ UNCHANGED <<broker, engine, recon, clock>>
       /\ UNCHANGED nonExecVars

\* the keys of broker_open, in insertion order
RECURSIVE ClientIds(_)
ClientIds(orders) ==
    IF orders = <<>> THEN <<>>
    ELSE LET rest == ClientIds(Tail(orders))
             id == orders[1].client_order_id
         IN <<id>> \o SelectSeq(rest, LAMBDA x : x # id)

\* reconcile, first statement: broker_open = {...self.broker.list_open_orders()}
ReconcileSnapshot ==
    /\ recon.pc = "idle"
    /\ hist.reconciles < MaxReconciles
    /\ recon' = [IdleRecon EXCEPT !.pc = "list_open",
                                  !.broker_open = ClientIds(list_open_orders(broker))]
    /\ hist' = [hist EXCEPT !.reconciles = @ + 1]
    /\ UNCHANGED <<journal, broker, engine, place, clock>>
    /\ UNCHANGED nonExecVars

\* for entry in self.journal.list_open(): the SELECT
ReconcileListOpen ==
    /\ recon.pc = "list_open"
    /\ recon' = [recon EXCEPT !.pc = "close", !.entries = list_open(journal), !.i = 1]
    /\ UNCHANGED <<journal, broker, engine, place, hist, clock>>
    /\ UNCHANGED nonExecVars

\* one iteration of the first loop (or its end)
ReconcileClose ==
    /\ recon.pc = "close"
    /\ IF recon.i > Len(recon.entries)
       THEN /\ recon' = [recon EXCEPT !.pc = "add", !.i = 1]
            /\ UNCHANGED journal
       ELSE LET entry == recon.entries[recon.i]
                in_broker == \E k \in 1..Len(recon.broker_open) :
                                recon.broker_open[k] = entry.client_order_id
            IN IF ~in_broker /\ entry.status # "closed"
               THEN /\ journal' = mark_status(journal, entry.client_order_id, "closed")
                    /\ recon' = [recon EXCEPT
                           !.i = @ + 1,
                           !.missing_in_broker = Append(@, entry.client_order_id),
                           !.reconciled_closed = Append(@, entry.client_order_id)]
               ELSE /\ recon' = [recon EXCEPT !.i = @ + 1]
                    /\ UNCHANGED journal
    /\ UNCHANGED <<broker, engine, place, hist, clock>>
    /\ UNCHANGED nonExecVars

\* the second loop, one journal statement at a time: get, record_intent,
\* mark_status; after the last key the report is returned
ReconcileAdd ==
    /\ recon.pc \in {"add", "add_insert", "add_mark"}
    /\ IF recon.pc = "add" /\ recon.i > Len(recon.broker_open)
       THEN /\ recon' = IdleRecon
            /\ UNCHANGED journal
       ELSE LET client_order_id == recon.broker_open[recon.i]
            IN IF recon.pc = "add"
               THEN /\ recon' = IF JournalGet(journal, client_order_id) = NoRow
                                 THEN [recon EXCEPT !.pc = "add_insert"]
                                 ELSE [recon EXCEPT !.i = @ + 1]
                    /\ UNCHANGED journal
               ELSE IF recon.pc = "add_insert"
               THEN /\ journal' = record_intent(journal, client_order_id, EmptyPayload).journal
                    /\ recon' = [recon EXCEPT !.pc = "add_mark"]
               ELSE /\ journal' = mark_status(journal, client_order_id, "submitted")
                    /\ recon' = [recon EXCEPT
                           !.pc = "add", !.i = @ + 1,
                           !.missing_in_journal = Append(@, client_order_id),
                           !.reconciled_added = Append(@, client_order_id)]
    /\ UNCHANGED <<broker, engine, place, hist, clock>>
    /\ UNCHANGED nonExecVars

\* the process dies and is started again on the same journal file: a new
\* ExecutionEngine, a new RequestThrottle, no call in progress
CrashRestart ==
    /\ hist.instance < MaxRestarts
    /\ engine' = NewEngine
    /\ place' = IdlePlace
    /\ recon' = IdleRecon
    /\ hist' = [hist EXCEPT
           !.instance = @ + 1,
           !.first_call = [id \in Ids |->
               IF place.pc # "idle" /\ place.first /\ place.order.client_order_id = id
               THEN "crashed" ELSE hist.first_call[id]]]
    /\ UNCHANGED <<journal, broker, clock>>
    /\ UNCHANGED nonExecVars

ExecNext ==
    \/ PlaceOrderCall
    \/ PlaceRecordIntent
    \/ PlaceSend
    \/ PlaceMarkSubmitted
    \/ PlaceReturn
    \/ ReconcileSnapshot
    \/ ReconcileListOpen
    \/ ReconcileClose
    \/ ReconcileAdd
    \/ CrashRestart

SpecExec == ExecInit /\ [][ExecNext]_vars

\* ---------------------------------------------------------------------------
\* Claims about the execution engine (checked under SpecExec)
\* ---------------------------------------------------------------------------

RowsFor(id) == { i \in 1..Len(journal) : journal[i].client_order_id = id }

\* C4: for every order whose first place_order returned a broker response,
\* every later place_order with the same client_order_id (by the same engine
\* or by a new engine on the same journal) returns the same broker_order_id,
\* broker.place_order has been invoked exactly once for the id, and the
\* journal holds exactly one row for it.
C4_SecondPlaceOrderIsIdempotent ==
    \A id \in Ids :
        hist.first_call[id] = "returned" =>
            /\ hist.returns[id] = hist.calls[id]
            /\ Cardinality(hist.returned[id]) = 1
            /\ hist.broker_calls[id] = 1
            /\ Cardinality(RowsFor(id)) = 1

\* an order placed, then asked for again by a restarted engine, and another
\* placed and asked for again by the same engine
C4_Witness ==
    /\ \E id \in Ids :
          hist.first_call[id] = "returned" /\ hist.returns[id] = 2 /\ hist.resumed[id]
    /\ \E id \in Ids :
          hist.first_call[id] = "returned" /\ hist.returns[id] = 2 /\ ~hist.resumed[id]

\* C5: across crashes between the steps of place_order and restarts,
\* broker.place_order is invoked at most once per client_order_id.
C5_AtMostOneSendAcrossCrashes ==
    \A id \in Ids : hist.broker_calls[id] <= 1

OpenAtBroker(b, id) ==
    \E k \in 1..Len(b.orders) :
        b.orders[k].client_order_id = id /\ IsOpenAtBroker(b.orders[k])

\* C6: reconcile never marks closed a journal entry whose order is open at
\* the broker.
C6_ReconcileNeverClosesOpenOrder ==
    [][ \A id \in Ids :
            ( /\ JournalGet(journal, id).status # "closed"
              /\ JournalGet(journal', id).status = "closed" )
            => ~OpenAtBroker(broker', id)
      ]_vars

\* ---------------------------------------------------------------------------
\* The safe-mode controller over its file, across crashes and restarts
\* ---------------------------------------------------------------------------

MaxSafeCalls == 3

MaxSafeClock == 2

\* reasons of async_service.py:64 and :80, and of run_service_loop.py:172
SafeReasons == {"Broker connection lost", "bar loop error"}

ClearReasons == {"manual_clear"}

GovIdle ==
    /\ rule_spec = BaseRuleSpec
    /\ state = InitialRuleState(rule_spec, 720, rule_spec.account_size)
    /\ governor = NewGovernor
    /\ decision = NoDecision
    /\ call = [op |-> "none", intent |-> NoIntent, was_disabled |-> FALSE]

SafeInit ==
    /\ GovIdle
    /\ ExecIdle
    /\ BarIdle
    /\ LoopIdle
    /\ JournalIdle
    /\ DriftIdle
    /\ ConnIdle
    /\ SimIdle
    /\ safe_file = NoFile
    /\ \E latched \in BOOLEAN : safe_mode = NewSafeMode(latched, safe_file)
    /\ safe_log = <<>>
    /\ safe_call = NoSafeCall
    /\ safe_hist = NoSafeHist

\* enable(reason) up to the assignment of self._state
SafeEnable ==
    \E reason \in SafeReasons :
        /\ safe_mode.up /\ safe_mode.pc = "idle"
        /\ safe_call.n < MaxSafeCalls
        /\ safe_call' = [op |-> "enable", reason |-> reason, n |-> safe_call.n + 1]
        /\ IF LatchedNoop(safe_mode)
           THEN UNCHANGED <<safe_mode, safe_hist>>
           ELSE LET st == SafeModeState(TRUE, reason, clock)
                IN /\ safe_mode' = [safe_mode EXCEPT !.state = st, !.pc = "save_enable"]
                   /\ safe_hist' = [safe_hist EXCEPT
                          !.first = IF safe_mode.state.enabled THEN @ ELSE st]
        /\ UNCHANGED <<safe_file, safe_log>>
        /\ UNCHANGED <<journalVars, driftVars, connVars, simVars, govVars, execVars, barVars, loopVars>>

\* clear(reason) up to the assignment of self._state
SafeClear ==
    \E reason \in ClearReasons :
        /\ safe_mode.up /\ safe_mode.pc = "idle"
        /\ safe_call.n < MaxSafeCalls
        /\ safe_call' = [op |-> "clear", reason |-> reason, n |-> safe_call.n + 1]
        /\ safe_mode' = [safe_mode EXCEPT !.state = SafeModeState(FALSE, reason, clock),
                                          !.pc = "save_clear"]
        /\ safe_hist' = [safe_hist EXCEPT !.first = NoPersisted, !.persisted = NoPersisted]
        /\ UNCHANGED <<safe_file, safe_log>>
        /\ UNCHANGED <<journalVars, driftVars, connVars, simVars, govVars, execVars, barVars, loopVars>>

\* self._save_state()
SafeSave ==
    /\ safe_mode.pc \in {"save_enable", "save_clear"}
    /\ safe_file' = save_state(safe_mode.state)
    /\ safe_mode' = [safe_mode EXCEPT
           !.pc = IF safe_mode.pc = "save_enable" THEN "log_enable" ELSE "log_clear"]
    /\ safe_hist' = [safe_hist EXCEPT
           !.persisted = IF safe_mode.pc = "save_enable" THEN safe_mode.state
                         ELSE NoPersisted]
    /\ UNCHANGED <<safe_log, safe_call>>
    /\ UNCHANGED <<journalVars, driftVars, connVars, simVars, govVars, execVars, barVars, loopVars>>

\* monitor.safe_mode(reason) and the "safe_mode" audit event; the call returns
SafeLog ==
    /\ safe_mode.pc \in {"log_enable", "log_clear"}
    /\ safe_log' = Append(safe_log, [enabled |-> safe_mode.state.enabled,
                                     reason |-> safe_mode.state.reason,
                                     notified |-> safe_mode.pc = "log_enable"])
    /\ safe_mode' = [safe_mode EXCEPT !.pc = "idle"]
    /\ UNCHANGED <<safe_file, safe_call, safe_hist>>
    /\ UNCHANGED <<journalVars, driftVars, connVars, simVars, govVars, execVars, barVars, loopVars>>

\* the process dies, inside write_text (the file is left truncated) or between
\* two statements, and a new SafeModeController is constructed on the path
SafeCrashRestart ==
    \E torn \in BOOLEAN :
        LET file == IF torn THEN EmptyFile ELSE safe_file
            sm == IF Unreadable(file) THEN NoSafeMode(safe_mode.latched)
                  ELSE NewSafeMode(safe_mode.latched, file)
        IN /\ safe_hist.restarts < MaxRestarts
           /\ torn => safe_mode.pc \in {"save_enable", "save_clear"}
           /\ safe_file' = file
           /\ safe_mode' = sm
           /\ safe_call' = [safe_call EXCEPT !.op = "restart", !.reason = NoneStr]
           /\ safe_hist' = [safe_hist EXCEPT
                  !.restarts = @ + 1,
                  !.first = IF sm.state.enabled THEN sm.state ELSE NoPersisted]
           /\ UNCHANGED safe_log
           /\ UNCHANGED <<journalVars, driftVars, connVars, simVars, govVars, execVars, barVars, loopVars>>

\* wall-clock time passes
SafeTick ==
    /\ clock < MaxSafeClock
    /\ clock' = clock + 1
    /\ UNCHANGED <<journal, broker, engine, place, recon, hist>>
    /\ UNCHANGED <<journalVars, driftVars, connVars, simVars, govVars, safeVars, barVars, loopVars>>

SafeNext ==
    \/ SafeEnable
    \/ SafeClear
    \/ SafeSave
    \/ SafeLog
    \/ SafeCrashRestart
    \/ SafeTick

SpecSafe == SafeInit /\ [][SafeNext]_vars

\* ---------------------------------------------------------------------------
\* Claims about the safe-mode latch (checked under SpecSafe)
\* ---------------------------------------------------------------------------

\* C9: once enable() has persisted enabled=true and until clear() is called,
\* every controller constructed on the path (after a crash) starts enabled
\* with the persisted reason and since, and the controller's state stays
\* enabled across every enable() call.
C9_SafeModeIsDurable ==
    (safe_hist.persisted.enabled /\ safe_mode.up) =>
        /\ safe_mode.state.enabled
        /\ safe_call.op = "restart" => safe_mode.state = safe_hist.persisted

\* a controller constructed after a crash on a path where enable() persisted
C9_Witness ==
    /\ safe_call.op = "restart"
    /\ safe_mode.up
    /\ safe_hist.persisted.enabled
    /\ safe_mode.state.reason = "bar loop error"
    /\ safe_hist.restarts = 1

\* C10: with latched=true, from the first effective enable(r1) until clear(),
\* the state is enabled with r1 and the since of that call, and every later
\* enable() changes nothing in memory, writes nothing and emits no event.
C10_LatchedFirstWriterWins ==
    /\ []( (safe_mode.latched /\ safe_mode.up /\ safe_hist.first.enabled) =>
               safe_mode.state = safe_hist.first )
    /\ [][ ( /\ safe_mode.latched /\ safe_mode.state.enabled
              /\ safe_call'.op = "enable" /\ safe_call'.n # safe_call.n )
            => UNCHANGED <<safe_mode, safe_file, safe_log>>
          ]_vars

\* a later enable with another reason at a later time found the latch set
C10_Witness ==
    /\ safe_mode.latched /\ safe_mode.up /\ safe_mode.pc = "idle"
    /\ safe_call.op = "enable"
    /\ safe_call.reason # safe_mode.state.reason
    /\ safe_mode.state.enabled
    /\ clock > safe_mode.state.since
    /\ Len(safe_log) = 1
    /\ safe_file = save_state(safe_hist.first)

\* ---------------------------------------------------------------------------
\* The service: bar task, fast task and health task on the event loop
\* (scripts/run_service_loop.py, runtime/async_service.py)
\* ---------------------------------------------------------------------------

MaxTicks == 2

\* lost pings
MaxFaults == 1

MaxWindowCalls == 3

MaxThrottleCalls == 4

MaxDriftUpdates == 3

MaxDriftTicks == 2

\* a complete, uninterrupted ExecutionEngine.place_order(order)
place_order(j, b, e, order, now) ==
    LET id == order.client_order_id
        existing == JournalGet(j, id)
        dup == check_duplicate(e.recent_orders, order, now)
        e1 == [e EXCEPT !.recent_orders = dup.recent_orders]
        j1 == IF existing = NoRow THEN record_intent(j, id, asdict(order)).journal ELSE j
        th == throttle_allow(e1.throttle, "place", order.time)
        e2 == [e1 EXCEPT !.throttle = th.throttle]
        sent == broker_place_order(b, order)
        j2 == mark_submitted(j1, id, sent.broker_order.broker_order_id)
        status == sent.broker_order.status
        j3 == IF status \in {"rejected", "canceled", "filled", "open", "partial"}
              THEN mark_status(j2, id, status)
              ELSE j2
        unsent(jj, ee, outcome, bo, error) ==
            [journal |-> jj, broker |-> b, engine |-> ee, outcome |-> outcome,
             broker_order |-> bo, sent |-> FALSE, error |-> error,
             log |-> IF error = "Duplicate order detected"
                     THEN <<"duplicate_order_detected">>
                     ELSE IF error \in {NoneStr, "KeyError"} THEN <<>>
                     ELSE <<"throttle_block">>]
    IN IF existing # NoRow /\ existing.broker_order_id # NoneStr
       THEN IF existing.payload = EmptyPayload
            THEN unsent(j, e, "raised", NoBrokerOrder, "KeyError")
            ELSE unsent(j, e, "returned", RecordedOrder(existing), NoneStr)
       ELSE IF dup.raised
       THEN unsent(j, e1, "raised", NoBrokerOrder, "Duplicate order detected")
       ELSE IF ~th.decision.allow
       THEN unsent(j1, e2, "raised", NoBrokerOrder, th.decision.reason)
       ELSE [journal |-> j3, broker |-> sent.broker, engine |-> e2,
             outcome |-> "returned", broker_order |-> sent.broker_order, sent |-> TRUE,
             error |-> NoneStr,
             log |-> IF status = "rejected"
                     THEN <<"order_submitted", "order_rejected">>
                     ELSE <<"order_submitted">>]

\* a complete SafeModeController.enable(reason): controller, file and events
enable(sm, file, log, reason, now) ==
    IF LatchedNoop(sm)
    THEN [safe_mode |-> sm, safe_file |-> file, safe_log |-> log]
    ELSE LET st == SafeModeState(TRUE, reason, now)
         IN [safe_mode |-> [sm EXCEPT !.state = st],
             safe_file |-> save_state(st),
             safe_log |-> Append(log, [enabled |-> TRUE, reason |-> reason,
                                       notified |-> TRUE])]

\* a complete SafeModeController.clear(reason)
clear(sm, file, log, reason, now) ==
    LET st == SafeModeState(FALSE, reason, now)
    IN [safe_mode |-> [sm EXCEPT !.state = st],
        safe_file |-> save_state(st),
        safe_log |-> Append(log, [enabled |-> FALSE, reason |-> reason,
                                  notified |-> FALSE])]

\* the bar task goes on whatever the latch says (mutation of SafeModeBlocks)
SafeModeBlocksNever(sm) == FALSE

\* if safe_mode.state.enabled: return
SafeModeBlocks(sm) == sm.state.enabled

\* every intent is admitted (mutation of Admitted)
AdmittedAlways(d) == TRUE

\* the negation of: if not decision.allow: continue
Admitted(d) == d.allow

BarIntent(intent_id, estimated_risk, reduce_only, side) ==
    [intent_id |-> intent_id, estimated_risk |-> estimated_risk,
     reduce_only |-> reduce_only, side |-> side]

\* the leader's intents of one tick: one, two, the same one twice
\* (defined below as TickIntents)
IntentA == BarIntent("A", 5, FALSE, "buy")

IntentB == BarIntent("B", 30, FALSE, "sell")

TickIntents == { <<IntentB>>, <<IntentA, IntentB>>, <<IntentA, IntentA>> }

\* equity the fast task reads: flat, half the daily allowance lost, at the
\* total limit
FastEquities == {1000, 975, 900}

BarInit ==
    /\ rule_spec = BaseRuleSpec
    /\ state = InitialRuleState(rule_spec, 720, rule_spec.account_size)
    /\ governor = NewGovernor
    /\ decision = NoDecision
    /\ call = [op |-> "none", intent |-> NoIntent, was_disabled |-> FALSE]
    /\ ExecIdle
    /\ safe_file = NoFile
    /\ \E latched \in BOOLEAN : safe_mode = NewSafeMode(latched, safe_file)
    /\ safe_log = <<>>
    /\ safe_call = NoSafeCall
    /\ safe_hist = NoSafeHist
    /\ BarIdle
    /\ LoopIdle
    /\ JournalIdle
    /\ DriftIdle
    /\ ConnIdle
    /\ SimIdle

\* the tick is over: the bar task sleeps
TickOver(b) == [b EXCEPT !.pc = "idle", !.intents = <<>>, !.intent = NoBarIntent,
                         !.decision = NoDecision]

\* observations of a tick that starts, of a tick that is over
TickStarted(h, safe) == [h EXCEPT !.ticks = @ + 1, !.tick_safe = safe]

TickEnded(h) == [h EXCEPT !.tick_pre_trades = 0, !.tick_places = 0, !.allowed = {}]

\* bar_loop, entry: the safe-mode check, fetch_new_bars and farm.process_bar
BarTick ==
    /\ bar.pc = "idle"
    /\ bar_hist.ticks < MaxTicks
    /\ bar_hist' = TickStarted(bar_hist, safe_mode.state.enabled)
    /\ IF SafeModeBlocks(safe_mode)
       THEN bar' = bar
       ELSE \E intents \in TickIntents :
               bar' = [bar EXCEPT !.pc = "intent", !.intents = intents]
    /\ UNCHANGED <<loopVars, journalVars, driftVars, connVars, simVars>>
    /\ UNCHANGED <<govVars, execVars, safeVars, svc>>

\* one iteration of the loop over the leader's intents, up to the admission
\* test (or the end of the tick)
BarPreTrade ==
    /\ bar.pc = "intent"
    /\ IF bar.intents = <<>>
       THEN /\ bar' = TickOver(bar)
            /\ bar_hist' = TickEnded(bar_hist)
            /\ UNCHANGED <<governor, state>>
       ELSE IF ~svc.state_cache_set
       THEN /\ bar' = [bar EXCEPT !.intents = Tail(@)]
            /\ UNCHANGED <<governor, state, bar_hist>>
       ELSE LET intent == Head(bar.intents)
                r == pre_trade(rule_spec, governor, intent, state)
            IN /\ governor' = r.gov
               /\ state' = r.state
               /\ IF Admitted(r.decision)
                  THEN /\ bar' = [bar EXCEPT !.pc = "place", !.intent = intent,
                                              !.decision = r.decision,
                                              !.intents = Tail(@)]
                       /\ bar_hist' = [bar_hist EXCEPT
                              !.tick_pre_trades = @ + 1,
                              !.allowed = IF r.decision.allow
                                          THEN @ \cup {intent.intent_id} ELSE @]
                  ELSE /\ bar' = [bar EXCEPT !.intents = Tail(@)]
                       /\ bar_hist' = [bar_hist EXCEPT !.tick_pre_trades = @ + 1]
    /\ UNCHANGED <<loopVars, journalVars, driftVars, connVars, simVars>>
    /\ UNCHANGED <<rule_spec, decision, call, execVars, safeVars, svc>>

\* execution_side(intent)
execution_side(intent) ==
    IF intent.reduce_only
    THEN (IF intent.side = "buy" THEN "sell" ELSE "buy")
    ELSE intent.side

\* engine.place_order(order) for the admitted intent; an exception leaves
\* bar_loop and _run_periodic enables safe-mode
BarPlace ==
    LET intent == bar.intent
        order == ExecutionOrder(intent.intent_id, intent.intent_id,
                                execution_side(intent), state.now)
        res == place_order(journal, broker, engine, order, clock)
        id == order.client_order_id
        on == enable(safe_mode, safe_file, safe_log, "bar loop error", clock)
    IN /\ bar.pc = "place"
       /\ journal' = res.journal
       /\ broker' = res.broker
       /\ engine' = res.engine
       /\ hist' = [hist EXCEPT !.calls[id] = @ + 1,
                               !.broker_calls[id] = IF res.sent THEN @ + 1 ELSE @]
       /\ IF res.outcome = "raised"
          THEN /\ bar' = TickOver(bar)
               /\ bar_hist' = TickEnded(bar_hist)
               /\ safe_mode' = on.safe_mode
               /\ safe_file' = on.safe_file
               /\ safe_log' = on.safe_log
          ELSE /\ bar' = [bar EXCEPT !.pc = "intent"]
               /\ bar_hist' = [bar_hist EXCEPT !.tick_places = @ + 1]
               /\ UNCHANGED <<safe_mode, safe_file, safe_log>>
       /\ UNCHANGED <<loopVars, journalVars, driftVars, connVars, simVars>>
       /\ UNCHANGED <<govVars, place, recon, clock, safe_call, safe_hist, svc>>

\* a fast_loop that writes the account snapshot into state_cache and leaves the
\* day roll, the drawdown start and evaluate_state out (mutation of FastTick)
FastTickRaw ==
    \E equity \in FastEquities :
        LET cache == IF svc.state_cache_set THEN state
                     ELSE InitialRuleState(rule_spec, state.now, equity)
        IN /\ bar.pc = "idle"
           /\ state' = [cache EXCEPT !.equity = equity, !.balance = equity,
                                     !.floating_pnl = 0]
           /\ svc' = [svc EXCEPT !.state_cache_set = TRUE]
           /\ UNCHANGED <<loopVars, journalVars, driftVars, connVars, simVars>>
           /\ UNCHANGED <<rule_spec, governor, decision, call, execVars, safeVars,
                          bar, bar_hist>>

\* fast_loop between two bar ticks: the account snapshot into state_cache,
\* governor.evaluate_state
FastTick ==
    \E equity \in FastEquities :
        LET cache == IF svc.state_cache_set THEN state
                     ELSE InitialRuleState(rule_spec, state.now, equity)
            written == [cache EXCEPT !.equity = equity, !.balance = equity,
                                     !.floating_pnl = 0]
            rolled == update_drawdown_start(roll_day_if_needed(written),
                                            rule_spec.drawdown_limit_pct)
            r == evaluate_state(rule_spec, governor, rolled)
        IN /\ bar.pc = "idle"
           /\ state' = r.state
           /\ governor' = r.gov
           /\ svc' = [svc EXCEPT !.state_cache_set = TRUE]
           /\ UNCHANGED <<loopVars, journalVars, driftVars, connVars, simVars>>
           /\ UNCHANGED <<rule_spec, decision, call, execVars, safeVars, bar, bar_hist>>

\* engine.check_connection on a worker thread: broker.ping answers False
\* (after an answer True, _health_once changes nothing)
HealthPing ==
    /\ svc.health = "idle"
    /\ bar_hist.faults < MaxFaults
    /\ svc' = [svc EXCEPT !.health = "lost"]
    /\ bar_hist' = [bar_hist EXCEPT !.faults = @ + 1]
    /\ UNCHANGED <<loopVars, journalVars, driftVars, connVars, simVars>>
    /\ UNCHANGED <<govVars, execVars, safeVars, bar>>

\* _health_once resumes on the event loop with the answer
HealthResume ==
    LET on == enable(safe_mode, safe_file, safe_log, "Broker connection lost", clock)
    IN /\ bar.pc = "idle"
       /\ svc.health = "lost"
       /\ svc' = [svc EXCEPT !.health = "idle"]
       /\ safe_mode' = on.safe_mode
       /\ safe_file' = on.safe_file
       /\ safe_log' = on.safe_log
       /\ UNCHANGED <<loopVars, journalVars, driftVars, connVars, simVars>>
       /\ UNCHANGED <<govVars, execVars, safe_call, safe_hist, bar, bar_hist>>

\* the service is stopped (or dies) and started again, with or without
\* --clear-safe: new controller on the file, new engine, new governor
ServiceRestart ==
    \E clear_safe \in BOOLEAN :
        LET sm == NewSafeMode(safe_mode.latched, safe_file)
            off == clear(sm, safe_file, safe_log, "manual_clear", clock)
        IN /\ bar_hist.restarts < MaxRestarts
           /\ IF clear_safe
              THEN /\ safe_mode' = off.safe_mode
                   /\ safe_file' = off.safe_file
                   /\ safe_log' = off.safe_log
              ELSE /\ safe_mode' = sm
                   /\ UNCHANGED <<safe_file, safe_log>>
           /\ engine' = NewEngine
           /\ governor' = NewGovernor
           /\ bar' = IdleBar
           /\ svc' = [svc EXCEPT !.health = "idle"]
           /\ bar_hist' = [TickEnded(bar_hist) EXCEPT !.restarts = @ + 1]
           /\ UNCHANGED <<loopVars, journalVars, driftVars, connVars, simVars>>
           /\ UNCHANGED <<rule_spec, state, decision, call, journal, broker, place,
                          recon, hist, clock, safe_call, safe_hist>>

BarNext ==
    \/ BarTick
    \/ BarPreTrade
    \/ BarPlace
    \/ FastTick
    \/ HealthPing
    \/ HealthResume
    \/ ServiceRestart

SpecBar == BarInit /\ [][BarNext]_vars

\* ---------------------------------------------------------------------------
\* Claims about the bar task (checked under SpecBar)
\* ---------------------------------------------------------------------------

\* C7: the bar task invokes place_order for an intent, and the broker is
\* reached for it, only if governor.pre_trade returned allow=true for that
\* intent in the same tick.
C7_PlaceOnlyAfterAllow ==
    [][ \A id \in Ids :
            ( \/ hist'.calls[id] # hist.calls[id]
              \/ hist'.broker_calls[id] # hist.broker_calls[id] )
            => /\ id \in bar_hist.allowed
               /\ bar.intent.intent_id = id
               /\ bar.decision.allow
      ]_vars

\* a tick that placed the order of intent A and then saw pre_trade deny B
C7_Witness ==
    /\ bar.pc = "intent"
    /\ bar_hist.tick_places = 1
    /\ bar_hist.tick_pre_trades = 2
    /\ hist.broker_calls["A"] = 1
    /\ hist.calls["B"] = 0

\* C8: a tick that finds safe-mode enabled at its start makes no pre_trade
\* and no place_order call, and while safe-mode is enabled no place_order is
\* invoked and no order is sent to the broker.
C8_SafeModeStopsBarTask ==
    /\ []( bar_hist.tick_safe =>
              /\ bar.pc = "idle"
              /\ bar_hist.tick_pre_trades = 0
              /\ bar_hist.tick_places = 0 )
    /\ [][ safe_mode.state.enabled =>
              /\ hist'.calls = hist.calls
              /\ hist'.broker_calls = hist.broker_calls
          ]_vars

\* the second tick found the latch set after the first tick had sent an order
C8_Witness ==
    /\ bar_hist.tick_safe
    /\ safe_mode.state.enabled
    /\ bar_hist.ticks = 2
    /\ hist.broker_calls["A"] = 1
    /\ svc.state_cache_set

\* ---------------------------------------------------------------------------
\* The service loop: run_forever and its four periodic tasks
\* (runtime/async_service.py)
\* ---------------------------------------------------------------------------

\* the callbacks that await asyncio.to_thread
Threaded == {"reconcile", "health"}

\* what a callback raises
Errors == {"boom"}

\* callbacks that raised and pings that broker.ping answered with False
LoopFaults == loop_hist.errors + loop_hist.pings_lost

\* f"{name} loop error: {exc}"
LoopErrorReason(name, exc) == name \o " loop error: " \o exc

\* a handler that lets the exception end the task (mutation of after_callback)
after_callback_dies(raised, delayed) ==
    IF raised THEN "done" ELSE IF delayed THEN "sleep" ELSE "while"

\* where a task goes after its callback: `if delay:` wait_for(stop_event.wait()),
\* else the next test of the while condition
after_callback(raised, delayed) == IF delayed THEN "sleep" ELSE "while"

\* a sleep that does not listen to the stop signal (mutation of WakesOnStop)
WakesOnStopNever(stop) == FALSE

\* asyncio.wait_for(stop_event.wait(), timeout=delay) returns once the event is set
WakesOnStop(stop) == stop

LoopInit ==
    /\ GovIdle
    /\ ExecIdle
    /\ BarIdle
    /\ safe_file = NoFile
    /\ \E latched \in BOOLEAN : safe_mode = NewSafeMode(latched, safe_file)
    /\ safe_log = <<>>
    /\ safe_call = NoSafeCall
    /\ safe_hist = NoSafeHist
    /\ loop = [stop |-> FALSE, main |-> "waiting", task |-> [n \in Names |-> "while"]]
    /\ loop_hist = NoLoopHist
    /\ JournalIdle
    /\ DriftIdle
    /\ ConnIdle
    /\ SimIdle

\* the except branch of _run_periodic: safe_mode.enable and the service_error event
CallbackRaised(n, exc) ==
    LET on == enable(safe_mode, safe_file, safe_log, LoopErrorReason(n, exc), clock)
    IN /\ LoopFaults < MaxFaults
       /\ safe_mode' = on.safe_mode
       /\ safe_file' = on.safe_file
       /\ safe_log' = on.safe_log
       /\ loop_hist' = [loop_hist EXCEPT
              !.errors = @ + 1,
              !.service_errors = Append(@, [loop |-> n, error |-> exc])]

\* one pass of `while not stop_event.is_set()` up to the first await that
\* suspends: the fast and bar callbacks run to their end, the reconcile and
\* health callbacks hand over to a worker thread
TaskIterate(n) ==
    /\ loop.task[n] = "while"
    /\ IF loop.stop
       THEN /\ loop' = [loop EXCEPT !.task[n] = "done"]
            /\ UNCHANGED <<safe_mode, safe_file, safe_log, loop_hist>>
       ELSE IF n \in Threaded
       THEN /\ loop' = [loop EXCEPT !.task[n] = "thread"]
            /\ UNCHANGED <<safe_mode, safe_file, safe_log, loop_hist>>
       ELSE \E delayed \in BOOLEAN :
               \/ /\ loop' = [loop EXCEPT !.task[n] = after_callback(FALSE, delayed)]
                  /\ UNCHANGED <<safe_mode, safe_file, safe_log, loop_hist>>
               \/ \E exc \in Errors :
                     /\ CallbackRaised(n, exc)
                     /\ loop' = [loop EXCEPT !.task[n] = after_callback(TRUE, delayed)]
    /\ UNCHANGED <<journalVars, driftVars, connVars, simVars, govVars, execVars, barVars, safe_call, safe_hist>>

\* the worker thread is done and the task resumes: engine.reconcile returned,
\* check_connection answered True or False, or the call raised
TaskResume(n) ==
    /\ loop.task[n] = "thread"
    /\ \E delayed \in BOOLEAN :
          \/ /\ loop' = [loop EXCEPT !.task[n] = after_callback(FALSE, delayed)]
             /\ loop_hist' = IF n = "health" THEN [loop_hist EXCEPT !.lost_pings = 0]
                              ELSE loop_hist
             /\ UNCHANGED <<safe_mode, safe_file, safe_log>>
          \/ /\ n = "health"
             /\ LoopFaults < MaxFaults
             /\ LET on == enable(safe_mode, safe_file, safe_log,
                                 "Broker connection lost", clock)
                IN /\ safe_mode' = on.safe_mode
                   /\ safe_file' = on.safe_file
                   /\ safe_log' = on.safe_log
             /\ loop_hist' = [loop_hist EXCEPT !.lost_pings = @ + 1,
                                               !.pings_lost = @ + 1]
             /\ loop' = [loop EXCEPT !.task[n] = after_callback(FALSE, delayed)]
          \/ \E exc \in Errors :
                /\ CallbackRaised(n, exc)
                /\ loop' = [loop EXCEPT !.task[n] = after_callback(TRUE, delayed)]
    /\ UNCHANGED <<journalVars, driftVars, connVars, simVars, govVars, execVars, barVars, safe_call, safe_hist>>

\* the timeout of wait_for elapses
TaskTimeout(n) ==
    /\ loop.task[n] = "sleep"
    /\ loop' = [loop EXCEPT !.task[n] = "while"]
    /\ UNCHANGED <<journalVars, driftVars, connVars, simVars, govVars, execVars, barVars, safeVars, loop_hist>>

\* stop_event.wait() completes inside wait_for
TaskWakeOnStop(n) ==
    /\ loop.task[n] = "sleep"
    /\ WakesOnStop(loop.stop)
    /\ loop' = [loop EXCEPT !.task[n] = "while"]
    /\ UNCHANGED <<journalVars, driftVars, connVars, simVars, govVars, execVars, barVars, safeVars, loop_hist>>

\* somebody sets the shared stop event
SetStop ==
    /\ loop.main # "none"
    /\ ~loop.stop
    /\ loop' = [loop EXCEPT !.stop = TRUE]
    /\ loop_hist' = [loop_hist EXCEPT
           !.asleep_at_stop = \E n \in Names : loop.task[n] = "sleep"]
    /\ UNCHANGED <<journalVars, driftVars, connVars, simVars, govVars, execVars, barVars, safeVars>>

\* run_forever: await stop_event.wait(), then the TaskGroup joins its tasks
LoopMain ==
    /\ \/ /\ loop.main = "waiting" /\ loop.stop
          /\ loop' = [loop EXCEPT !.main = "joining"]
       \/ /\ loop.main = "joining" /\ \A n \in Names : loop.task[n] = "done"
          /\ loop' = [loop EXCEPT !.main = "returned"]
    /\ UNCHANGED <<journalVars, driftVars, connVars, simVars, govVars, execVars, barVars, safeVars, loop_hist>>

LoopNext ==
    \/ \E n \in Names : TaskIterate(n)
    \/ \E n \in Names : TaskResume(n)
    \/ \E n \in Names : TaskTimeout(n)
    \/ \E n \in Names : TaskWakeOnStop(n)
    \/ SetStop
    \/ LoopMain

SpecLoop == LoopInit /\ [][LoopNext]_vars

\* the event loop runs every task that is ready, every callback returns, and
\* a set event wakes its waiters; timeouts are left without fairness
LoopFairness ==
    /\ \A n \in Names : WF_vars(TaskIterate(n))
    /\ \A n \in Names : WF_vars(TaskResume(n))
    /\ \A n \in Names : WF_vars(TaskWakeOnStop(n))
    /\ WF_vars(LoopMain)

SpecLoopFair == LoopInit /\ [][LoopNext]_vars /\ LoopFairness

\* the step is the except branch of _run_periodic taken by task n
RaisedIn(n) ==
    /\ loop_hist'.errors = loop_hist.errors + 1
    /\ Len(loop_hist'.service_errors) = Len(loop_hist.service_errors) + 1
    /\ loop_hist'.service_errors[Len(loop_hist'.service_errors)].loop = n

\* C11: when the callback of one of the four periodic tasks raises, the
\* exception is caught: safe-mode is enabled with the reason
\* "<task> loop error: <error>" (an enable on a latched, already enabled
\* controller keeps the state it has), a service_error event naming the task
\* and the error is logged, the task goes on to its sleep or its next pass and
\* the three other tasks and run_forever stay where they are; no task ends
\* before the stop signal is set.
C11_CallbackErrorIsContained ==
    /\ []((\E n \in Names : loop.task[n] = "done") => loop.stop)
    /\ [][\A n \in Names :
             RaisedIn(n) =>
               LET logged == loop_hist'.service_errors[Len(loop_hist'.service_errors)]
               IN /\ safe_mode'.state.enabled
                  /\ IF LatchedNoop(safe_mode)
                     THEN safe_mode' = safe_mode
                     ELSE safe_mode'.state.reason = LoopErrorReason(n, logged.error)
                  /\ loop_hist'.service_errors =
                         Append(loop_hist.service_errors, [loop |-> n, error |-> logged.error])
                  /\ loop'.task[n] \in {"while", "sleep"}
                  /\ \A m \in Names \ {n} : loop'.task[m] = loop.task[m]
                  /\ loop'.main = loop.main
                  /\ loop'.stop = loop.stop
         ]_vars

\* the health callback raised, safe-mode carries the loop error, and the health
\* task is inside its next check_connection with nothing stopped
C11_Witness ==
    /\ loop_hist.errors = 1
    /\ loop_hist.service_errors = <<[loop |-> "health", error |-> "boom"]>>
    /\ safe_mode.state.enabled
    /\ safe_mode.state.reason = "health loop error: boom"
    /\ loop.task["health"] = "thread"
    /\ \A n \in Names : loop.task[n] # "done"
    /\ ~loop.stop

\* C12: a single failed ping does not enable safe-mode: whenever safe-mode
\* becomes enabled with the reason "Broker connection lost", the ping before
\* the failed one had failed too.
C12_SecondLostPingEnables ==
    [][(/\ ~safe_mode.state.enabled
        /\ safe_mode'.state.enabled
        /\ safe_mode'.state.reason = "Broker connection lost")
       => loop_hist.lost_pings >= 1]_vars

\* C13: once the stop signal is set, each of the four tasks ends and
\* run_forever returns.
C13_StopTerminates ==
    loop.stop ~> (/\ \A n \in Names : loop.task[n] = "done"
                  /\ loop.main = "returned")

\* run_forever returned after a stop signal that found a task asleep
C13_Witness ==
    /\ loop.stop
    /\ loop_hist.asleep_at_stop
    /\ \A n \in Names : loop.task[n] = "done"
    /\ loop.main = "returned"

\* ---------------------------------------------------------------------------
\* The order journal driven call by call (execution/journal.py)
\* ---------------------------------------------------------------------------

\* the payloads the engine records: asdict(order) from place_order and {} from
\* reconcile
Payloads == { asdict(o) : o \in Orders } \cup { EmptyPayload }

\* statuses mark_status is called with
MarkedStatuses == {"filled", "closed"}

JournalInit ==
    /\ GovIdle
    /\ ExecIdle
    /\ SafeIdle
    /\ BarIdle
    /\ LoopIdle
    /\ JournalIdle
    /\ DriftIdle
    /\ ConnIdle
    /\ SimIdle

JournalCall(op, client_order_id, payload, ok, entry) ==
    [op |-> op, client_order_id |-> client_order_id, payload |-> payload,
     ok |-> ok, entry |-> entry]

JournalRecordIntent ==
    \E id \in Ids, payload \in Payloads :
        LET r == record_intent(journal, id, payload)
        IN /\ journal' = r.journal
           /\ jcall' = JournalCall("record_intent", id, payload, r.ok, NoRow)
           /\ UNCHANGED <<broker, engine, place, recon, hist, clock>>
           /\ UNCHANGED <<govVars, safeVars, barVars, loopVars, driftVars, connVars, simVars>>

JournalMarkSubmitted ==
    \E id \in Ids :
        /\ journal' = mark_submitted(journal, id, PaperId(1))
        /\ jcall' = JournalCall("mark_submitted", id, EmptyPayload, FALSE, NoRow)
        /\ UNCHANGED <<broker, engine, place, recon, hist, clock>>
        /\ UNCHANGED <<govVars, safeVars, barVars, loopVars, driftVars, connVars, simVars>>

JournalMarkStatus ==
    \E id \in Ids, status \in MarkedStatuses :
        /\ journal' = mark_status(journal, id, status)
        /\ jcall' = JournalCall("mark_status", id, EmptyPayload, FALSE, NoRow)
        /\ UNCHANGED <<broker, engine, place, recon, hist, clock>>
        /\ UNCHANGED <<govVars, safeVars, barVars, loopVars, driftVars, connVars, simVars>>

JournalGetCall ==
    \E id \in Ids :
        /\ jcall' = JournalCall("get", id, EmptyPayload, FALSE, JournalGet(journal, id))
        /\ UNCHANGED execVars
        /\ UNCHANGED <<govVars, safeVars, barVars, loopVars, driftVars, connVars, simVars>>

JournalNext ==
    \/ JournalRecordIntent
    \/ JournalMarkSubmitted
    \/ JournalMarkStatus
    \/ JournalGetCall

SpecJournal == JournalInit /\ [][JournalNext]_vars

\* what json.loads gives back for the TEXT json.dumps(payload, default=str)
\* wrote: the payload with its datetime replaced by the str() of it
JsonImage(payload) ==
    IF "time" \in DOMAIN payload THEN [payload EXCEPT !.time = PyStr(@.at)] ELSE payload

UniqueClientOrderIds ==
    \A i, k \in 1..Len(journal) :
        i # k => journal[i].client_order_id # journal[k].client_order_id

\* C20 as stated: after record_intent(id, p) returned true, get(id) returns an
\* entry with that id, status intent and payload p; a record_intent on an id
\* the journal holds returns false and leaves the journal as it is; the
\* journal never holds two rows with the same client_order_id.
C20_GetReturnsRecordedPayload ==
    /\ []UniqueClientOrderIds
    /\ [][jcall'.op = "record_intent" =>
             LET id == jcall'.client_order_id
                 entry == JournalGet(journal', id)
             IN /\ jcall'.ok <=> ~JournalHas(journal, id)
                /\ jcall'.ok =>
                      /\ entry.client_order_id = id
                      /\ entry.status = "intent"
                      /\ entry.payload = jcall'.payload
                /\ ~jcall'.ok => journal' = journal
         ]_vars

\* C20 amended: after record_intent(id, p) returned true, get(id) returns an
\* entry with that id, no broker_order_id, status intent and the JSON image of
\* p as payload: p itself when p holds JSON values only, and otherwise p with
\* each datetime replaced by its str(); a record_intent on an id the journal
\* holds returns false and leaves payload, status and broker_order_id of the
\* row, and every other row, as they are; the journal never holds two rows
\* with the same client_order_id.
C20_GetReturnsJsonImageOfPayload ==
    /\ []UniqueClientOrderIds
    /\ [][jcall'.op = "record_intent" =>
             LET id == jcall'.client_order_id
                 entry == JournalGet(journal', id)
             IN /\ jcall'.ok <=> ~JournalHas(journal, id)
                /\ jcall'.ok =>
                      /\ entry.client_order_id = id
                      /\ entry.broker_order_id = NoneStr
                      /\ entry.status = "intent"
                      /\ entry.payload = JsonImage(jcall'.payload)
                      /\ jcall'.payload = EmptyPayload => entry.payload = jcall'.payload
                /\ ~jcall'.ok =>
                      /\ JournalGet(journal', id) = JournalGet(journal, id)
                      /\ journal' = journal
         ]_vars

\* C20 witness: a record_intent with another payload was refused for an id
\* whose row is already submitted under a broker id, and the row kept the
\* payload of the first call
C20_Witness ==
    /\ jcall.op = "record_intent"
    /\ ~jcall.ok
    /\ jcall.payload = EmptyPayload
    /\ JournalGet(journal, jcall.client_order_id).status = "submitted"
    /\ JournalGet(journal, jcall.client_order_id).broker_order_id = PaperId(1)
    /\ JournalGet(journal, jcall.client_order_id).payload
           = JsonImage(asdict(ExecutionOrder("A", "A", "buy", 720)))
    /\ Len(journal) = 2

\* ---------------------------------------------------------------------------
\* reconcile as one call (execution/engine.py), with no other caller between
\* its statements
\* ---------------------------------------------------------------------------

\* a reconcile that stops at the first entry it closes (mutation of CloseMissing)
RECURSIVE CloseMissingFirstOnly(_, _, _)
CloseMissingFirstOnly(j, entries, broker_open) ==
    IF entries = <<>> THEN [journal |-> j, missing |-> <<>>]
    ELSE LET entry == Head(entries)
             missing == /\ \A k \in 1..Len(broker_open) :
                              broker_open[k] # entry.client_order_id
                        /\ entry.status # "closed"
         IN IF missing
            THEN [journal |-> mark_status(j, entry.client_order_id, "closed"),
                  missing |-> <<entry.client_order_id>>]
            ELSE CloseMissingFirstOnly(j, Tail(entries), broker_open)

\* for entry in self.journal.list_open(): if entry.client_order_id not in
\* broker_open and entry.status != "closed": mark_status(..., "closed") and
\* append to missing_in_broker and reconciled_closed
RECURSIVE CloseMissing(_, _, _)
CloseMissing(j, entries, broker_open) ==
    IF entries = <<>> THEN [journal |-> j, missing |-> <<>>]
    ELSE LET entry == Head(entries)
             missing == /\ \A k \in 1..Len(broker_open) :
                              broker_open[k] # entry.client_order_id
                        /\ entry.status # "closed"
             j1 == IF missing THEN mark_status(j, entry.client_order_id, "closed") ELSE j
             rest == CloseMissing(j1, Tail(entries), broker_open)
         IN [journal |-> rest.journal,
             missing |-> (IF missing THEN <<entry.client_order_id>> ELSE <<>>)
                         \o rest.missing]

\* a second loop that leaves the added row in status intent (mutation of AddMissing)
AddMissingAsIntent(j, broker_open) ==
    LET absent == SelectSeq(broker_open, LAMBDA id : JournalGet(j, id) = NoRow)
        RECURSIVE Insert(_, _)
        Insert(jj, ids) ==
            IF ids = <<>> THEN jj
            ELSE Insert(record_intent(jj, Head(ids), EmptyPayload).journal, Tail(ids))
    IN [journal |-> Insert(j, absent), missing |-> absent]

\* for client_order_id in broker_open.keys(): if self.journal.get(id) is None:
\* record_intent(id, {}), mark_status(id, "submitted") and append to
\* missing_in_journal and reconciled_added
RECURSIVE AddMissing(_, _)
AddMissing(j, broker_open) ==
    IF broker_open = <<>> THEN [journal |-> j, missing |-> <<>>]
    ELSE LET client_order_id == Head(broker_open)
             absent == JournalGet(j, client_order_id) = NoRow
             j1 == IF absent
                   THEN mark_status(record_intent(j, client_order_id, EmptyPayload).journal,
                                    client_order_id, "submitted")
                   ELSE j
             rest == AddMissing(j1, Tail(broker_open))
         IN [journal |-> rest.journal,
             missing |-> (IF absent THEN <<client_order_id>> ELSE <<>>) \o rest.missing]

\* a reconcile that reports the mismatches and repairs nothing (mutation of
\* reconcile)
reconcile_report_only(j, b) ==
    LET broker_open == ClientIds(list_open_orders(b))
        closed == CloseMissing(j, list_open(j), broker_open)
        added == AddMissing(j, broker_open)
    IN [journal |-> j,
        report |-> [missing_in_broker |-> closed.missing,
                    missing_in_journal |-> added.missing,
                    reconciled_closed |-> closed.missing,
                    reconciled_added |-> added.missing]]

\* ReconcileReport(missing_in_broker, missing_in_journal, reconciled_closed,
\* reconciled_added) and the journal the call leaves
reconcile(j, b) ==
    LET broker_open == ClientIds(list_open_orders(b))
        closed == CloseMissing(j, list_open(j), broker_open)
        added == AddMissing(closed.journal, broker_open)
    IN [journal |-> added.journal,
        report |-> [missing_in_broker |-> closed.missing,
                    missing_in_journal |-> added.missing,
                    reconciled_closed |-> closed.missing,
                    reconciled_added |-> added.missing]]

\* PaperBroker.cancel_order: order.status = "canceled"
paper_cancel_order(b, broker_order_id) ==
    [b EXCEPT !.orders = [i \in 1..Len(b.orders) |->
                             IF b.orders[i].broker_order_id = broker_order_id
                             THEN [b.orders[i] EXCEPT !.status = "canceled"]
                             ELSE b.orders[i]]]

ReconInit ==
    /\ rule_spec = BaseRuleSpec
    /\ state = InitialRuleState(rule_spec, 720, rule_spec.account_size)
    /\ governor = NewGovernor
    /\ decision = NoDecision
    /\ call = [op |-> "none", intent |-> NoIntent, was_disabled |-> FALSE]
    /\ journal = <<>>
    /\ \E orders \in {<<>>, <<ForeignOrder>>} :
           broker = [PaperBroker(FALSE) EXCEPT !.orders = orders]
    /\ engine = NewEngine
    /\ place = IdlePlace
    /\ recon = IdleRecon
    /\ hist = NoHist
    /\ clock = 720
    /\ SafeIdle
    /\ BarIdle
    /\ LoopIdle
    /\ JournalIdle
    /\ DriftIdle
    /\ ConnIdle
    /\ SimIdle

\* the last call made: a journal write, a broker change or a reconcile
ReconCall(op, client_order_id) ==
    JournalCall(op, client_order_id, EmptyPayload, FALSE, NoRow)

\* engine.reconcile(), whole; recon keeps the report the call returned and
\* hist.reconciles counts the runs made since the last journal or broker change
ReconcileRun ==
    /\ (IF jcall.op = "reconcile" THEN hist.reconciles ELSE 0) <= MaxReconciles
    /\ LET r == reconcile(journal, broker)
       IN /\ journal' = r.journal
          /\ recon' = [IdleRecon EXCEPT
                          !.pc = "returned",
                          !.missing_in_broker = r.report.missing_in_broker,
                          !.missing_in_journal = r.report.missing_in_journal,
                          !.reconciled_closed = r.report.reconciled_closed,
                          !.reconciled_added = r.report.reconciled_added]
    /\ hist' = [hist EXCEPT !.reconciles =
                    IF jcall.op = "reconcile" THEN @ + 1 ELSE 1]
    /\ jcall' = ReconCall("reconcile", NoneStr)
    /\ UNCHANGED <<broker, engine, place, clock>>
    /\ UNCHANGED <<govVars, safeVars, barVars, loopVars, driftVars, connVars, simVars>>

\* the journal writes place_order makes, one at a time
ReconJournalWrite ==
    \E order \in Orders :
        /\ \/ journal' = record_intent(journal, order.client_order_id, asdict(order)).journal
           \/ \E status \in {"submitted", "filled"} :
                  /\ JournalHas(journal, order.client_order_id)
                  /\ journal' = mark_status(journal, order.client_order_id, status)
        /\ jcall' = ReconCall("write", order.client_order_id)
        /\ UNCHANGED <<broker, engine, place, recon, hist, clock>>
        /\ UNCHANGED <<govVars, safeVars, barVars, loopVars, driftVars, connVars, simVars>>

\* the broker's book changes: an order is placed or cancelled
ReconBrokerChange ==
    \E order \in Orders :
        /\ \/ broker' = paper_place_order(broker, order).broker
           \/ /\ BrokerHas(broker, order.client_order_id)
              /\ broker' = paper_cancel_order(
                               broker, BrokerGet(broker, order.client_order_id).broker_order_id)
        /\ jcall' = ReconCall("broker", order.client_order_id)
        /\ UNCHANGED <<journal, engine, place, recon, hist, clock>>
        /\ UNCHANGED <<govVars, safeVars, barVars, loopVars, driftVars, connVars, simVars>>

ReconNext ==
    \/ ReconcileRun
    \/ ReconJournalWrite
    \/ ReconBrokerChange

SpecRecon == ReconInit /\ [][ReconNext]_vars

\* C21: reconcile is idempotent: a reconcile that directly follows a
\* reconcile, with no broker change and no journal write in between, leaves
\* the journal exactly as the first run left it.
C21_ReconcileIsIdempotent ==
    [][(jcall.op = "reconcile" /\ jcall'.op = "reconcile") => journal' = journal]_vars

\* a second run in a row, after a first run that closed a row and added one
C21_Witness ==
    /\ jcall.op = "reconcile"
    /\ hist.reconciles = 2
    /\ \E i \in 1..Len(journal) : journal[i].status = "closed"
    /\ \E i \in 1..Len(journal) : journal[i].client_order_id = "X"

\* the client_order_ids a list holds
Listed(ids) == { ids[k] : k \in 1..Len(ids) }

\* C22: after a reconcile with no concurrent journal write, every open
\* journal entry (intent, submitted, open, partial) whose id is not open at the
\* broker is closed and listed in missing_in_broker and reconciled_closed,
\* every broker open order that had no journal entry has a row with an empty
\* payload and status submitted and is listed in missing_in_journal and
\* reconciled_added, and every other journal row is unchanged.
C22_ReconcilePostcondition ==
    [][jcall'.op = "reconcile" =>
          LET open_ids == { broker.orders[k].client_order_id :
                              k \in { k \in 1..Len(broker.orders) :
                                        broker.orders[k].status \in {"submitted", "open"} } }
              stale == { i \in 1..Len(journal) :
                           /\ journal[i].status \in {"intent", "submitted", "open", "partial"}
                           /\ journal[i].client_order_id \notin open_ids }
              unknown == { id \in open_ids :
                             \A i \in 1..Len(journal) : journal[i].client_order_id # id }
          IN /\ Len(journal') = Len(journal) + Cardinality(unknown)
             /\ \A i \in 1..Len(journal) :
                    IF i \in stale
                    THEN /\ journal'[i] = [journal[i] EXCEPT !.status = "closed"]
                         /\ journal[i].client_order_id \in Listed(recon'.missing_in_broker)
                         /\ journal[i].client_order_id \in Listed(recon'.reconciled_closed)
                    ELSE journal'[i] = journal[i]
             /\ \A id \in unknown :
                    /\ \E i \in (Len(journal) + 1)..Len(journal') :
                           journal'[i] = JournalRow(id, NoneStr, "submitted",
                                                    json_dumps(EmptyPayload))
                    /\ id \in Listed(recon'.missing_in_journal)
                    /\ id \in Listed(recon'.reconciled_added)
             /\ Listed(recon'.missing_in_broker)
                    = { journal[i].client_order_id : i \in stale }
             /\ Listed(recon'.reconciled_closed) = Listed(recon'.missing_in_broker)
             /\ Listed(recon'.missing_in_journal) = unknown
             /\ Listed(recon'.reconciled_added) = unknown]_vars

\* a run that closed A, added X and left the filled row of B alone
C22_Witness ==
    /\ jcall.op = "reconcile"
    /\ recon.reconciled_closed = <<"A">>
    /\ recon.reconciled_added = <<"X">>
    /\ JournalGet(journal, "A").status = "closed"
    /\ JournalGet(journal, "B").status = "filled"
    /\ JournalGet(journal, "X") = JournalRow("X", NoneStr, "submitted", EmptyPayload)

\* the position of a status along intent, submitted,
\* (open | partial | filled | rejected | canceled), closed
StatusRank(status) ==
    CASE status = "intent" -> 0
      [] status = "submitted" -> 1
      [] status \in {"open", "partial", "filled", "rejected", "canceled"} -> 2
      [] status = "closed" -> 3

\* the rank of every journal row, by client_order_id, in rowid order
JournalRanks ==
    [i \in 1..Len(journal) |->
        <<journal[i].client_order_id, StatusRank(journal[i].status)>>]

\* C23: under any sequence of place_order and reconcile calls the journal
\* status of each client_order_id only moves forward along intent, submitted,
\* (open | partial | filled | rejected | canceled), closed: no step takes a row
\* from closed, or from any later status, back to an earlier one.
C23_StatusOnlyMovesForward ==
    [][\A i \in 1..Len(journal) :
          /\ i <= Len(journal')
          /\ journal'[i].client_order_id = journal[i].client_order_id
          /\ StatusRank(journal'[i].status) >= StatusRank(journal[i].status)]_JournalRanks

\* ---------------------------------------------------------------------------
\* Duplicate window and request throttle of one engine, over wall-clock time
\* ---------------------------------------------------------------------------

MaxWallClock == 11

\* the minutes the orders carry: noon of one civil day and of the next
WindowTimes == {720, MinutesPerDay + 720}

\* orders of the leader: A, the same fingerprint under another
\* client_order_id, and an order without intent_id
WindowOrders(time) ==
    { ExecutionOrder("A", "A", "buy", time),
      ExecutionOrder("B", "A", "buy", time),
      ExecutionOrder("B", NoneStr, "sell", time) }

WindowInit ==
    /\ rule_spec = BaseRuleSpec
    /\ state = InitialRuleState(rule_spec, 720, rule_spec.account_size)
    /\ governor = NewGovernor
    /\ decision = NoDecision
    /\ call = [op |-> "none", intent |-> NoIntent, was_disabled |-> FALSE]
    /\ journal = <<>>
    /\ broker = PaperBroker(FALSE)
    /\ engine = NewEngine
    /\ place = IdlePlace
    /\ recon = IdleRecon
    /\ hist = NoHist
    /\ clock = 0
    /\ SafeIdle
    /\ BarIdle
    /\ LoopIdle
    /\ JournalIdle
    /\ DriftIdle
    /\ ConnIdle
    /\ SimIdle

\* engine.place_order(order), whole, at wall-clock second clock; order.time
\* never runs backwards. place keeps the call and its outcome, hist.sent the
\* fingerprints that reached the broker and when
WindowPlace ==
    \E time \in WindowTimes :
      \E order \in WindowOrders(time) :
        LET res == place_order(journal, broker, engine, order, clock)
        IN /\ engine.throttle.last_request_time # None
                  => time >= engine.throttle.last_request_time
           /\ place.order.time # None => time >= place.order.time
           /\ journal' = res.journal
           /\ broker' = res.broker
           /\ engine' = res.engine
           /\ place' = [IdlePlace EXCEPT !.pc = res.outcome, !.order = order,
                                         !.broker_order = res.broker_order,
                                         !.error = res.error, !.log = res.log]
           /\ hist' = [hist EXCEPT
                          !.instance = @ + 1,
                          !.sent = IF res.sent
                                   THEN Append(@, <<clock, duplicate_signature(order)>>)
                                   ELSE @]
           /\ hist.instance < MaxWindowCalls
           /\ UNCHANGED <<recon, clock>>
           /\ UNCHANGED nonExecVars

\* time.time() moves on
WindowTick ==
    /\ clock < MaxWallClock
    /\ clock' = clock + 1
    /\ UNCHANGED <<journal, broker, engine, place, recon, hist>>
    /\ UNCHANGED nonExecVars

WindowNext ==
    \/ WindowPlace
    \/ WindowTick

SpecWindow == WindowInit /\ [][WindowNext]_vars

\* the order carries an intent_id and its fingerprint reached the broker
\* within the last duplicate_window_seconds before second now
SubmittedWithinWindow(order, now) ==
    /\ order.intent_id # NoneStr
    /\ \E k \in 1..Len(hist.sent) :
           /\ hist.sent[k][2] = duplicate_signature(order)
           /\ hist.sent[k][1] >= now - duplicate_window_seconds

\* C24: with duplicate_block and a positive window, place_order fails with a
\* duplicate error, without calling the broker, exactly when the order carries
\* an intent_id and an order with the same fingerprint was submitted to the
\* broker within the last duplicate_window_seconds; an order whose earlier
\* attempt never reached the broker is not a duplicate on retry. Read for the
\* calls that get past the idempotent return of a journaled broker_order_id.
C24_DuplicateExactlyWhenSubmitted ==
    [][(/\ hist'.instance = hist.instance + 1
        /\ JournalGet(journal, place'.order.client_order_id).broker_order_id = NoneStr) =>
          /\ (place'.error = "Duplicate order detected")
                 <=> SubmittedWithinWindow(place'.order, clock)
          /\ place'.error = "Duplicate order detected" => broker' = broker]_hist

\* ---------------------------------------------------------------------------
\* The request throttle of one engine over two civil days
\* ---------------------------------------------------------------------------

\* the timestamps of the calls: noon and the last minute of one civil day, the
\* first minute and noon of the next
ThrottleTimes == {720, MinutesPerDay - 1, MinutesPerDay, MinutesPerDay + 720}

ThrottleInit ==
    /\ rule_spec = BaseRuleSpec
    /\ state = InitialRuleState(rule_spec, 720, rule_spec.account_size)
    /\ governor = NewGovernor
    /\ decision = NoDecision
    /\ call = [op |-> "none", intent |-> NoIntent, was_disabled |-> FALSE]
    /\ journal = <<>>
    /\ broker = PaperBroker(FALSE)
    /\ engine = NewEngine
    /\ place = IdlePlace
    /\ recon = IdleRecon
    /\ hist = NoHist
    /\ clock = 0
    /\ SafeIdle
    /\ BarIdle
    /\ LoopIdle
    /\ JournalIdle
    /\ DriftIdle
    /\ ConnIdle
    /\ SimIdle

\* the calls come with non-decreasing timestamps; place.order.time keeps the
\* timestamp of the last call
LaterTimes == { now \in ThrottleTimes : place.order.time = None \/ now >= place.order.time }

\* self.throttle.allow(kind, now) as cancel_order and modify_order make it:
\* place keeps the kind, the timestamp and the decision, hist.allows the
\* timestamps of the calls that were allowed
ThrottleAllow ==
    \E kind \in {"cancel", "modify"} :
      \E now \in LaterTimes :
        LET r == throttle_allow(engine.throttle, kind, now)
        IN /\ hist.instance < MaxThrottleCalls
           /\ engine' = [engine EXCEPT !.throttle = r.throttle]
           /\ place' = [IdlePlace EXCEPT
                           !.pc = IF r.decision.allow THEN "returned" ELSE "raised",
                           !.order = [NoOrder EXCEPT !.time = now],
                           !.error = IF r.decision.allow THEN NoneStr ELSE r.decision.reason,
                           !.log = IF r.decision.allow THEN <<>> ELSE <<"throttle_block">>]
           /\ hist' = [hist EXCEPT !.instance = @ + 1,
                                   !.allows = IF r.decision.allow THEN Append(@, now) ELSE @]
           /\ UNCHANGED <<journal, broker, recon, clock>>
           /\ UNCHANGED nonExecVars

\* engine.place_order(order), whole, for an order without intent_id
ThrottlePlace ==
    \E id \in Ids :
      \E now \in LaterTimes :
        LET order == ExecutionOrder(id, NoneStr, "buy", now)
            res == place_order(journal, broker, engine, order, clock)
        IN /\ hist.instance < MaxThrottleCalls
           /\ JournalGet(journal, id).broker_order_id = NoneStr
           /\ journal' = res.journal
           /\ broker' = res.broker
           /\ engine' = res.engine
           /\ place' = [IdlePlace EXCEPT !.pc = res.outcome, !.order = order,
                                         !.broker_order = res.broker_order,
                                         !.error = res.error, !.log = res.log]
           /\ hist' = [hist EXCEPT !.instance = @ + 1,
                                   !.allows = IF res.error = NoneStr THEN Append(@, now) ELSE @]
           /\ UNCHANGED <<recon, clock>>
           /\ UNCHANGED nonExecVars

ThrottleNext ==
    \/ ThrottleAllow
    \/ ThrottlePlace

SpecThrottle == ThrottleInit /\ [][ThrottleNext]_vars

\* the calls hist.allows holds on the civil day of minute now
AllowedOn(now) ==
    { k \in 1..Len(hist.allows) : day_start_for(hist.allows[k]) = day_start_for(now) }

max_age_seconds == 60

DriftKinds == {"missing_in_broker", "missing_in_journal"}

DriftIds == {"A", "B", "X"}

\* f"missing_in_broker:{order_id}", f"missing_in_journal:{order_id}"
DriftKey(kind, order_id) == kind \o ":" \o order_id

\* kind, order_id = key.split(":", 1)
SplitKey(key) ==
    CHOOSE p \in DriftKinds \X DriftIds : DriftKey(p[1], p[2]) = key

\* one item of the dict _state, in insertion order
DriftEntry(key, first_seen, last_seen, alerted) ==
    [key |-> key, first_seen |-> first_seen, last_seen |-> last_seen,
     alerted |-> alerted]

\* the keys of _state
TrackedKeys(drift_state) == { drift_state[i].key : i \in 1..Len(drift_state) }

\* self._state.get(key) of a tracked key
EntryOf(drift_state, key) ==
    drift_state[CHOOSE i \in 1..Len(drift_state) : drift_state[i].key = key]

\* the set current_keys
current_keys(report) ==
    { DriftKey("missing_in_broker", report.missing_in_broker[k]) :
          k \in 1..Len(report.missing_in_broker) }
    \cup { DriftKey("missing_in_journal", report.missing_in_journal[k]) :
             k \in 1..Len(report.missing_in_journal) }

\* the orders in which `for key in current_keys` can yield the set
KeyOrders(keys) ==
    { order \in [1..Cardinality(keys) -> keys] :
          \A i, k \in 1..Cardinality(keys) : i # k => order[i] # order[k] }

\* duration >= self.max_age_seconds and not entry.get("alerted"), with an
\* alert that is raised again on every update (mutation of Alerts)
AlertsAgain(entry, duration) == duration >= max_age_seconds

\* duration >= self.max_age_seconds and not entry.get("alerted")
Alerts(entry, duration) == duration >= max_age_seconds /\ ~entry.alerted

\* the first loop of update ("New or existing mismatches") over the keys in
\* the order given; tr holds _state, the audit events and the safe-mode
\* controller with its file and events
RECURSIVE ObserveKeys(_, _, _)
ObserveKeys(tr, keys, now) ==
    IF keys = <<>> THEN tr
    ELSE LET key == Head(keys)
             split == SplitKey(key)
             tr1 ==
                 IF key \notin TrackedKeys(tr.state)
                 THEN [tr EXCEPT
                          !.state = Append(@, DriftEntry(key, isoformat(now),
                                                         isoformat(now), FALSE)),
                          !.log = Append(@, <<"drift_detected", key>>)]
                 ELSE LET entry == [EntryOf(tr.state, key) EXCEPT
                                       !.last_seen = isoformat(now)]
                          duration == now - fromisoformat(entry.first_seen)
                          alert == Alerts(entry, duration)
                          on == enable(tr.safe_mode, tr.safe_file, tr.safe_log,
                                       "Drift unresolved: " \o split[1] \o " " \o split[2],
                                       now)
                      IN [tr EXCEPT
                             !.state = [i \in 1..Len(tr.state) |->
                                           IF tr.state[i].key = key
                                           THEN [entry EXCEPT !.alerted = @ \/ alert]
                                           ELSE tr.state[i]],
                             !.log = IF alert THEN Append(@, <<"drift_unresolved", key>>)
                                     ELSE @,
                             !.safe_mode = IF alert THEN on.safe_mode ELSE @,
                             !.safe_file = IF alert THEN on.safe_file ELSE @,
                             !.safe_log = IF alert THEN on.safe_log ELSE @]
         IN ObserveKeys(tr1, Tail(keys), now)

\* a second loop that keeps the resolved keys (mutation of ResolveKeys)
ResolveKeysNever(tr, keys) == tr

\* the second loop of update ("Resolved mismatches"): every key of _state
\* that is not in current_keys is popped, in the order of the dict
ResolveKeys(tr, keys) ==
    LET gone == SelectSeq(tr.state, LAMBDA e : e.key \notin keys)
    IN [tr EXCEPT
           !.state = SelectSeq(tr.state, LAMBDA e : e.key \in keys),
           !.log = @ \o [i \in 1..Len(gone) |-> <<"drift_resolved", gone[i].key>>]]

\* DriftTracker.update(report, now), with current_keys yielded in order keys
update(tr, report, keys, now) ==
    ResolveKeys(ObserveKeys(tr, keys, now), current_keys(report))

\* the reports reconcile hands to the tracker
DriftReports ==
    { DriftReport(b, j) : b \in {<<>>, <<"A">>}, j \in {<<>>, <<"X">>} }

DriftInit ==
    /\ GovIdle
    /\ ExecIdle
    /\ BarIdle
    /\ LoopIdle
    /\ JournalIdle
    /\ DriftIdle
    /\ ConnIdle
    /\ SimIdle
    /\ safe_file = NoFile
    /\ \E latched \in BOOLEAN : safe_mode = NewSafeMode(latched, safe_file)
    /\ safe_log = <<>>
    /\ safe_call = NoSafeCall
    /\ safe_hist = NoSafeHist

\* on_reconcile: drift_tracker.update(report), whole, at second clock
DriftUpdate ==
    \E report \in DriftReports :
      \E keys \in KeyOrders(current_keys(report)) :
        LET tr == update([state |-> drift.state, log |-> drift.log,
                          safe_mode |-> safe_mode, safe_file |-> safe_file,
                          safe_log |-> safe_log],
                         report, keys, clock)
        IN /\ drift.updates < MaxDriftUpdates
           /\ drift' = [drift EXCEPT !.state = tr.state, !.log = tr.log,
                                     !.report = report, !.now = clock,
                                     !.updates = @ + 1]
           /\ safe_mode' = tr.safe_mode
           /\ safe_file' = tr.safe_file
           /\ safe_log' = tr.safe_log
           /\ UNCHANGED <<safe_call, safe_hist, clock>>
           /\ UNCHANGED <<journal, broker, engine, place, recon, hist>>
           /\ UNCHANGED <<govVars, barVars, loopVars, journalVars, connVars, simVars>>

\* time passes between two reconcile passes
DriftTick ==
    \E d \in {1, max_age_seconds - 1} :
        /\ drift.ticks < MaxDriftTicks
        /\ clock' = clock + d
        /\ drift' = [drift EXCEPT !.ticks = @ + 1]
        /\ UNCHANGED <<journal, broker, engine, place, recon, hist>>
        /\ UNCHANGED <<govVars, safeVars, barVars, loopVars, journalVars, connVars, simVars>>

DriftNext ==
    \/ DriftUpdate
    \/ DriftTick

SpecDrift == DriftInit /\ [][DriftNext]_vars

\* the audit events the update of this step logged
EmittedByUpdate == SubSeq(drift'.log, Len(drift.log) + 1, Len(drift'.log))

\* how many times a list of events holds an event
CountOf(events, event) == Cardinality({ k \in 1..Len(events) : events[k] = event })

KeyA == DriftKey("missing_in_broker", "A")

\* C26: over updates that report the one mismatch missing_in_broker = [A]:
\* the update that first sees it emits drift_detected and leaves safe-mode
\* untouched; the next update, max_age_seconds or more after the first, emits
\* drift_unresolved exactly once, sets alerted and enables safe-mode with
\* reason "Drift unresolved: missing_in_broker A"; every further update that
\* still reports the mismatch emits no second drift_unresolved.
C26_UnresolvedDriftAlertsOnce ==
    [][(/\ drift'.updates = drift.updates + 1
        /\ drift'.report = DriftReport(<<"A">>, <<>>)) =>
          LET unresolved == CountOf(EmittedByUpdate, <<"drift_unresolved", KeyA>>)
              tracked == KeyA \in TrackedKeys(drift.state)
          IN /\ ~tracked =>
                    /\ CountOf(EmittedByUpdate, <<"drift_detected", KeyA>>) = 1
                    /\ unresolved = 0
                    /\ ~EntryOf(drift'.state, KeyA).alerted
                    /\ safe_mode' = safe_mode
                    /\ safe_file' = safe_file
                    /\ safe_log' = safe_log
             /\ (/\ tracked
                 /\ drift.report = DriftReport(<<"A">>, <<>>)
                 /\ ~EntryOf(drift.state, KeyA).alerted
                 /\ clock - fromisoformat(EntryOf(drift.state, KeyA).first_seen)
                        >= max_age_seconds) =>
                    /\ unresolved = 1
                    /\ EntryOf(drift'.state, KeyA).alerted
                    /\ ~LatchedNoop(safe_mode) =>
                           /\ safe_mode'.state.enabled
                           /\ safe_mode'.state.reason
                                  = "Drift unresolved: missing_in_broker A"
             /\ (tracked /\ EntryOf(drift.state, KeyA).alerted) =>
                    /\ unresolved = 0
                    /\ EntryOf(drift'.state, KeyA).alerted
                    /\ safe_mode' = safe_mode]_vars

\* three updates reporting A, at seconds 0, 60 and 60: detected, then
\* unresolved with safe-mode enabled, then nothing more
C26_Witness ==
    /\ drift.updates = 3
    /\ drift.report = DriftReport(<<"A">>, <<>>)
    /\ drift.log = <<<<"drift_detected", KeyA>>, <<"drift_unresolved", KeyA>>>>
    /\ drift.state = <<DriftEntry(KeyA, isoformat(0), isoformat(max_age_seconds), TRUE)>>
    /\ safe_mode.state.enabled
    /\ safe_mode.state.reason = "Drift unresolved: missing_in_broker A"

\* C27: after every update(report) the tracked keys are the mismatch keys of
\* that report; a key is created when first observed, with first_seen =
\* last_seen = now and alerted false; first_seen never changes while the key is
\* tracked; the key is removed, with a drift_resolved event, by the first
\* update whose report lacks it; a key that reappears starts a fresh entry.
C27_TrackedKeysFollowReport ==
    /\ [](drift.updates > 0 =>
              /\ TrackedKeys(drift.state) = current_keys(drift.report)
              /\ Len(drift.state) = Cardinality(TrackedKeys(drift.state)))
    /\ [][drift'.updates = drift.updates + 1 =>
              \A key \in { DriftKey(p[1], p[2]) : p \in DriftKinds \X DriftIds } :
                  LET was == key \in TrackedKeys(drift.state)
                      is == key \in current_keys(drift'.report)
                  IN /\ (~was /\ is) =>
                            EntryOf(drift'.state, key)
                                = DriftEntry(key, isoformat(clock), isoformat(clock), FALSE)
                     /\ (was /\ is) =>
                            /\ EntryOf(drift'.state, key).first_seen
                                   = EntryOf(drift.state, key).first_seen
                            /\ EntryOf(drift'.state, key).last_seen = isoformat(clock)
                     /\ CountOf(EmittedByUpdate, <<"drift_resolved", key>>)
                            = (IF was /\ ~is THEN 1 ELSE 0)
                     /\ CountOf(EmittedByUpdate, <<"drift_detected", key>>)
                            = (IF ~was /\ is THEN 1 ELSE 0)]_vars

\* A seen at second 0, gone at the next update, back at second 60 with a
\* fresh entry
C27_Witness ==
    /\ drift.updates = 3
    /\ drift.log = <<<<"drift_detected", KeyA>>, <<"drift_resolved", KeyA>>,
                     <<"drift_detected", KeyA>>>>
    /\ drift.state = <<DriftEntry(KeyA, isoformat(max_age_seconds),
                                  isoformat(max_age_seconds), FALSE)>>

\* ---------------------------------------------------------------------------
\* The service loop with its reconcile and health passes run for real on
\* worker threads (runtime/async_service.py, execution/journal.py)
\* ---------------------------------------------------------------------------

\* a journal with one connection for all threads: the attribute of the first
\* thread that connected (mutation of journal_conn)
journal_conn_shared(local, thread) ==
    IF \A t \in Threads : local[t] = NoneStr
    THEN [t \in Threads |-> thread]
    ELSE [t \in Threads |->
             local[CHOOSE o \in Threads : local[o] # NoneStr]]

\* OrderJournal._conn() called on a thread: self._local as the threads see it
\* afterwards; the connection returned is local[thread]
journal_conn(local, thread) ==
    IF local[thread] = NoneStr THEN [local EXCEPT ![thread] = thread] ELSE local

\* sqlite3: a connection used outside the thread that created it raises
\* ProgrammingError (check_same_thread)
WrongThread(local, thread) == local[thread] # thread

ThreadsInit ==
    /\ GovIdle
    /\ BarIdle
    /\ JournalIdle
    /\ DriftIdle
    /\ ConnIdle
    /\ SimIdle
    /\ \E fill_on_place \in BOOLEAN :
         \E orders \in {<<>>, <<ForeignOrder>>} :
           LET res == place_order(<<>>, [PaperBroker(fill_on_place) EXCEPT !.orders = orders],
                                  NewEngine, ExecutionOrder("A", "A", "buy", 720), 0)
           IN /\ journal = res.journal
              /\ broker = res.broker
              /\ engine = res.engine
    /\ place = IdlePlace
    /\ recon = IdleRecon
    /\ hist = NoHist
    /\ clock = 0
    /\ safe_file = NoFile
    /\ \E latched \in BOOLEAN : safe_mode = NewSafeMode(latched, safe_file)
    /\ safe_log = <<>>
    /\ safe_call = NoSafeCall
    /\ safe_hist = NoSafeHist
    /\ loop = [stop |-> FALSE, main |-> "waiting", task |-> [n \in Names |-> "while"]]
    /\ loop_hist = NoLoopHist

\* _reconcile_once: engine.reconcile on the worker thread, whole; the journal
\* calls go through _conn() of that thread
ThreadReconcile ==
    /\ loop.task["reconcile"] = "thread"
    /\ LET local == journal_conn(conns, "worker")
       IN \E delayed \in BOOLEAN :
            /\ conns' = local
            /\ IF WrongThread(local, "worker")
               THEN /\ CallbackRaised("reconcile", "ProgrammingError")
                    /\ loop' = [loop EXCEPT
                                   !.task["reconcile"] = after_callback(TRUE, delayed)]
                    /\ UNCHANGED journal
               ELSE /\ journal' = reconcile(journal, broker).journal
                    /\ loop' = [loop EXCEPT
                                   !.task["reconcile"] = after_callback(FALSE, delayed)]
                    /\ UNCHANGED <<safe_mode, safe_file, safe_log, loop_hist>>
    /\ UNCHANGED <<broker, engine, place, recon, hist, clock>>
    /\ UNCHANGED <<journalVars, driftVars, simVars, govVars, barVars, safe_call, safe_hist>>

\* _health_once: engine.check_connection on the worker thread, then
\* safe_mode.enable on the loop when the ping was lost
ThreadHealth ==
    /\ loop.task["health"] = "thread"
    /\ \E delayed \in BOOLEAN :
          /\ loop' = [loop EXCEPT !.task["health"] = after_callback(FALSE, delayed)]
          /\ \/ /\ loop_hist' = [loop_hist EXCEPT !.lost_pings = 0]
                /\ UNCHANGED <<safe_mode, safe_file, safe_log>>
             \/ /\ LoopFaults < MaxFaults
                /\ LET on == enable(safe_mode, safe_file, safe_log,
                                    "Broker connection lost", clock)
                   IN /\ safe_mode' = on.safe_mode
                      /\ safe_file' = on.safe_file
                      /\ safe_log' = on.safe_log
                /\ loop_hist' = [loop_hist EXCEPT !.lost_pings = @ + 1,
                                                  !.pings_lost = @ + 1]
    /\ UNCHANGED <<journalVars, driftVars, connVars, simVars, govVars, execVars, barVars,
                   safe_call, safe_hist>>

ThreadsNext ==
    \/ \E n \in Names : TaskIterate(n)
    \/ ThreadReconcile
    \/ ThreadHealth
    \/ \E n \in Names : TaskTimeout(n)
    \/ \E n \in Names : TaskWakeOnStop(n)
    \/ SetStop
    \/ LoopMain

SpecThreads == ThreadsInit /\ [][ThreadsNext]_vars

\* C28: in a run where no callback raises and every ping succeeds, safe-mode
\* is never enabled and no service_error is logged: the reconcile and health
\* passes, run on a worker thread beside the other tasks and on a journal the
\* main thread opened, raise nothing. Safe-mode is written only by the service
\* loop (the except branch of _run_periodic and the lost ping of _health_once).
C28_QuietRunKeepsSafeModeClear ==
    /\ []((/\ \A k \in 1..Len(loop_hist.service_errors) :
                 loop_hist.service_errors[k].loop \in Threaded
           /\ loop_hist.pings_lost = 0) =>
              /\ ~safe_mode.state.enabled
              /\ safe_log = <<>>
              /\ safe_file = NoFile
              /\ loop_hist.service_errors = <<>>)
    /\ [][(safe_mode' # safe_mode \/ safe_file' # safe_file \/ safe_log' # safe_log) =>
              \/ loop_hist'.errors = loop_hist.errors + 1
              \/ loop_hist'.pings_lost = loop_hist.pings_lost + 1]_vars

\* the loop has stopped after a reconcile pass on the worker thread closed the
\* filled order's row and added the foreign one, with safe-mode clear
C28_Witness ==
    /\ loop.main = "returned"
    /\ conns["worker"] = "worker"
    /\ JournalGet(journal, "X").status = "submitted"
    /\ loop_hist.errors = 0
    /\ loop_hist.pings_lost = 0
    /\ ~safe_mode.state.enabled

\* ---------------------------------------------------------------------------
\* The four tasks of one service run around the RuleState cache
\* (scripts/run_service_loop.py)
\* ---------------------------------------------------------------------------

CacheNext ==
    \/ FastTick
    \/ BarTick
    \/ BarPreTrade
    \/ BarPlace
    \/ HealthPing
    \/ HealthResume
    \/ ReconcileRun

SpecCache == BarInit /\ [][CacheNext]_vars

\* C29: the RuleState cache is mutated only by the fast task: every step of a
\* bar tick (governor.pre_trade on the cached state, then place_order), of a
\* reconcile tick and of a health tick leaves every field of the cached
\* RuleState as it was.
C29_OnlyFastTaskMutatesCache ==
    [][(\/ bar' # bar
        \/ bar_hist' # bar_hist
        \/ svc'.health # svc.health
        \/ jcall' # jcall
        \/ hist' # hist) => state' = state]_<<state, bar, bar_hist, svc, jcall, hist>>

\* the bar task admitted an intent on a cache the fast task had rolled into a
\* drawdown, and sent its order
C29_Witness ==
    /\ svc.state_cache_set
    /\ state.equity = 975
    /\ bar.pc = "intent"
    /\ bar_hist.tick_places = 1
    /\ hist.broker_calls["B"] = 1

\* ---------------------------------------------------------------------------
\* The rule engine called directly (rule_engine/engine.py)
\* ---------------------------------------------------------------------------

\* engine.check_violation(state): the violations come back in decision, the
\* RuleState is the object the caller passed
EngineCheckViolation ==
    /\ state' = check_violation_state(rule_spec, state)
    /\ decision' = [NoDecision EXCEPT
                       !.allow = check_violation(rule_spec, state) = <<>>,
                       !.reason = IF check_violation(rule_spec, state) = <<>>
                                  THEN NoneStr
                                  ELSE Head(check_violation(rule_spec, state))]
    /\ call' = [op |-> "check_violation", intent |-> NoIntent,
                was_disabled |-> governor.disabled]
    /\ UNCHANGED <<rule_spec, governor>>
    /\ UNCHANGED nonGovVars

\* engine.pre_trade_check(order_intent, state)
EnginePreTradeCheck ==
    \E order_intent \in Intents :
        LET r == pre_trade_check(rule_spec, order_intent, state)
        IN /\ decision' = [NoDecision EXCEPT !.allow = r.allow, !.reason = r.reason]
           /\ call' = [op |-> "pre_trade_check", intent |-> order_intent,
                       was_disabled |-> governor.disabled]
           /\ UNCHANGED <<rule_spec, governor, state>>
           /\ UNCHANGED nonGovVars

EngineNext ==
    \/ UpdateState
    \/ EngineCheckViolation
    \/ EnginePreTradeCheck

SpecEngine == GovInit /\ [][EngineNext]_vars

\* C30: the rule engine is pure: check_violation and pre_trade_check leave
\* every field of the RuleState unchanged, drawdown_start_time included, for
\* every input.
C30_RuleEngineLeavesStateAlone ==
    [][call'.op \in {"check_violation", "pre_trade_check"} => state' = state]_vars

\* ---------------------------------------------------------------------------
\* The RuleState across evaluations
\* ---------------------------------------------------------------------------

\* drawdown_pct() >= limit_pct for a RuleState: the loss of the effective
\* equity against initial_balance, in percent of initial_balance
InDrawdown(s, limit_pct) ==
    LET costs == s.commission + s.swap + s.other_fees
        equity == IF s.floating_pnl # 0 \/ costs # 0
                  THEN s.balance + s.floating_pnl - costs
                  ELSE s.equity
        loss == IF s.initial_balance - equity > 0 THEN s.initial_balance - equity ELSE 0
    IN loss * 100 >= limit_pct * s.initial_balance

\* C31: with drawdown_limit_pct > 0, after every evaluate_state call (one made
\* by pre_trade included) drawdown_start_time is set exactly when the drawdown
\* is at or past the limit at that evaluation; while the evaluations stay at or
\* past the limit it keeps the now of the first of them; the first evaluation
\* below the limit resets it to None; nothing but an evaluation writes it.
C31_DrawdownStartFollowsEvaluation ==
    [][/\ rule_spec.drawdown_limit_pct > 0
       /\ (call'.op \in {"evaluate_state", "pre_trade"}) =>
              /\ (state'.drawdown_start_time # None) <=>
                     InDrawdown(state', rule_spec.drawdown_limit_pct)
              /\ InDrawdown(state', rule_spec.drawdown_limit_pct) =>
                     state'.drawdown_start_time =
                         IF state.drawdown_start_time # None
                         THEN state.drawdown_start_time
                         ELSE state'.now
       /\ (call'.op \notin {"evaluate_state", "pre_trade"}) =>
              state'.drawdown_start_time = state.drawdown_start_time]_vars

\* C31 witness: an evaluation at or past the limit on a later day than the
\* first such evaluation, the start still that of the first
C31_Witness ==
    /\ call.op = "evaluate_state"
    /\ InDrawdown(state, rule_spec.drawdown_limit_pct)
    /\ state.drawdown_start_time = 720
    /\ state.now = 3600

\* ---------------------------------------------------------------------------
\* RuleState.effective_equity over the cost fields (rule_engine/models.py)
\* ---------------------------------------------------------------------------

\* the account fields a caller writes into a RuleState: the equity field equal
\* to the balance or left behind it, an open loss, and costs of either sign
\* (a swap can be a credit)
AccountFields ==
    [ balance : {1000}, equity : {1000, 990}, floating_pnl : {0, -40},
      commission : {0, 5, 10}, swap : {-5, 0, 5}, other_fees : {0, 5} ]

EquityInit ==
    /\ GovInit
    /\ rule_spec = BaseRuleSpec

\* the caller fills the account fields of the RuleState
WriteAccount ==
    \E a \in AccountFields :
        /\ state' = [state EXCEPT !.balance = a.balance, !.equity = a.equity,
                                  !.floating_pnl = a.floating_pnl,
                                  !.commission = a.commission, !.swap = a.swap,
                                  !.other_fees = a.other_fees]
        /\ call' = [op |-> "write_account", result |-> None]
        /\ UNCHANGED <<rule_spec, governor, decision>>
        /\ UNCHANGED nonGovVars

\* state.effective_equity()
EffectiveEquity ==
    /\ call' = [op |-> "effective_equity", result |-> effective_equity(state)]
    /\ UNCHANGED <<rule_spec, governor, decision, state>>
    /\ UNCHANGED nonGovVars

EquityNext == WriteAccount \/ EffectiveEquity

SpecEquity == EquityInit /\ [][EquityNext]_vars

\* C32: for every RuleState in which any of commission, swap or other_fees is
\* non-zero, effective_equity() is balance + floating_pnl - (commission + swap
\* + other_fees), also when costs of mixed sign sum to zero; with no cost and
\* no floating P&L it is the equity field.
C32_EffectiveEquityCountsEveryCost ==
    call.op = "effective_equity" =>
        /\ (state.commission # 0 \/ state.swap # 0 \/ state.other_fees # 0) =>
               call.result = state.balance + state.floating_pnl
                                 - (state.commission + state.swap + state.other_fees)
        /\ (state.commission = 0 /\ state.swap = 0 /\ state.other_fees = 0
            /\ state.floating_pnl = 0) =>
               call.result = state.equity

\* the civil day of an instant and the local midnight that opens it
CivilDay(t) == t \div MinutesPerDay

LocalMidnight(t) == CivilDay(t) * MinutesPerDay

\* C33: roll_day_if_needed, as evaluate_state calls it, changes the state only
\* when now lies on a later civil day than day_start_time: it then sets
\* day_start_time to the local midnight of now and day_start_equity to the
\* effective equity (balance plus floating P&L less costs, not the raw equity
\* field); otherwise both fields stay. After evaluate_state with non-decreasing
\* now, day_start_time is the local midnight of now. No other call moves the
\* two fields.
C33_DayRollsOnLaterCivilDay ==
    [][LET costs == state.commission + state.swap + state.other_fees
           equity == IF state.floating_pnl # 0 \/ costs # 0
                     THEN state.balance + state.floating_pnl - costs
                     ELSE state.equity
           later == CivilDay(state.now) > CivilDay(state.day_start_time)
       IN IF call'.op \in {"evaluate_state", "pre_trade"}
          THEN /\ later => /\ state'.day_start_time = LocalMidnight(state.now)
                           /\ state'.day_start_equity = equity
               /\ ~later => /\ state'.day_start_time = state.day_start_time
                            /\ state'.day_start_equity = state.day_start_equity
               /\ state'.day_start_time = LocalMidnight(state'.now)
          ELSE /\ state'.day_start_time = state.day_start_time
               /\ state'.day_start_equity = state.day_start_equity]_vars

\* C33 witness: the day rolled two civil days forward onto an effective equity
\* of 950 made of an open loss and commission, the equity field at 1000
C33_Witness ==
    /\ call.op = "evaluate_state"
    /\ state.now = 3600
    /\ state.day_start_time = 2880
    /\ state.equity = 1000
    /\ state.floating_pnl = -40
    /\ state.commission = 10
    /\ state.day_start_equity = 950

\* ---------------------------------------------------------------------------
\* Evaluation simulator (simulator/evaluator.py): simulate_trades
\* ---------------------------------------------------------------------------

MaxTrades == 3

\* sorted(items, key=...): Python's sort is stable; keys[i] is the key of seq[i]
sorted(seq, keys) ==
    LET n == Len(seq)
        rank(i) == Cardinality({ j \in 1..n : \/ keys[j] < keys[i]
                                              \/ (keys[j] = keys[i] /\ j < i) }) + 1
    IN [k \in 1..n |-> seq[CHOOSE i \in 1..n : rank(i) = k]]

Min(a, b) == IF a <= b THEN a ELSE b

\* a closed Trade: entry_time, exit_time (None when absent) and profit
Trade(entry_time, exit_time, profit) ==
    [entry_time |-> entry_time, exit_time |-> exit_time, profit |-> profit]

\* trading_day_count(trades): the number of civil days that hold an entry
trading_day_count(entry_times) ==
    Cardinality({ trading_day_for(t) : t \in entry_times })

\* the RuleState the simulator builds; swap, other_fees and is_news_blackout
\* keep their defaults
SimRuleState(now, equity, balance, floating_pnl, commission, swap, day_start_equity, day_start_time, initial_balance, trades, stage_start_time, drawdown_start_time, last_trade_time, open_positions) ==
    [now |-> now, equity |-> equity, balance |-> balance,
     day_start_equity |-> day_start_equity, day_start_time |-> day_start_time,
     initial_balance |-> initial_balance,
     floating_pnl |-> floating_pnl, commission |-> commission, swap |-> swap,
     other_fees |-> 0, trades |-> trades, is_news_blackout |-> FALSE,
     open_positions |-> open_positions, last_trade_time |-> last_trade_time,
     stage_start_time |-> stage_start_time,
     drawdown_start_time |-> drawdown_start_time]

BreachEvent(time, reason, equity, daily_headroom, max_headroom) ==
    [time |-> time, reason |-> reason, equity |-> equity,
     daily_headroom |-> daily_headroom, max_headroom |-> max_headroom]

\* _evaluate_pass(state, violations, trading_days)
evaluate_pass(sp, s, violations, trading_days) ==
    IF violations # <<>>
    THEN [passed |-> FALSE, failure_reason |-> "Violation: " \o violations[1]]
    ELSE IF sp.stage = "funded"
    THEN [passed |-> TRUE, failure_reason |-> NoneStr]
    ELSE IF effective_equity(s) - s.initial_balance < profit_target(sp)
    THEN [passed |-> FALSE, failure_reason |-> "Profit target not reached"]
    ELSE IF trading_days < sp.min_trading_days
    THEN [passed |-> FALSE, failure_reason |-> "Minimum trading days not reached"]
    ELSE [passed |-> TRUE, failure_reason |-> NoneStr]

\* _finalize_result: the SimulationResult; target_progress is kept as the
\* profit and the target it divides
finalize_result(sp, s, violations, run, trading_days) ==
    [passed |-> evaluate_pass(sp, s, violations, trading_days).passed,
     failure_reason |-> evaluate_pass(sp, s, violations, trading_days).failure_reason,
     trading_days |-> trading_days,
     target_progress |-> IF sp.stage = "funded" \/ profit_target(sp) = 0
                         THEN <<0, 1>>
                         ELSE <<effective_equity(s) - s.initial_balance, profit_target(sp)>>,
     violations |-> violations,
     min_daily_headroom |-> run.min_daily_headroom,
     min_max_headroom |-> run.min_max_headroom,
     buffer_breaches |-> run.buffer_breaches,
     min_equity_intraday |-> run.min_equity_intraday,
     min_equity_overall |-> run.min_equity_overall,
     breach_events |-> run.breach_events]

\* the headroom bookkeeping both entry points do after equity is recomputed
Headroom(sp, run, time, equity) ==
    LET daily_headroom == remaining_daily_loss(equity, run.day_start_equity, sp.max_daily_loss)
        max_headroom == remaining_max_loss(equity, run.initial_balance, sp.max_total_loss)
        e1 == IF daily_headroom <= 0
              THEN <<BreachEvent(time, "DAILY_LOSS_LIMIT", equity, daily_headroom, max_headroom)>>
              ELSE <<>>
        e2 == IF max_headroom <= 0
              THEN <<BreachEvent(time, "MAX_LOSS_LIMIT", equity, daily_headroom, max_headroom)>>
              ELSE <<>>
    IN [run EXCEPT
           !.min_daily_headroom = Min(@, daily_headroom),
           !.min_max_headroom = Min(@, max_headroom),
           !.min_equity_intraday = Min(@, equity),
           !.min_equity_overall = Min(@, equity),
           !.buffer_breaches = IF \/ daily_headroom <= effective_daily_buffer(sp)
                                  \/ max_headroom <= effective_max_buffer(sp)
                               THEN @ + 1 ELSE @,
           !.breach_events = @ \o e1 \o e2]

\* the locals of a simulate_* call before its loop
NewRun(sp, kind, now, initial_balance) ==
    [pc |-> kind, i |-> 0, now |-> now, stage_start_time |-> now,
     day_start_time |-> day_start_for(now), day_start_equity |-> initial_balance,
     initial_balance |-> initial_balance,
     balance |-> initial_balance, equity |-> initial_balance,
     min_daily_headroom |-> remaining_daily_loss(initial_balance, initial_balance,
                                                 sp.max_daily_loss),
     min_max_headroom |-> remaining_max_loss(initial_balance, initial_balance,
                                             sp.max_total_loss),
     buffer_breaches |-> 0,
     min_equity_intraday |-> initial_balance, min_equity_overall |-> initial_balance,
     breach_events |-> <<>>, violations |-> <<>>, drawdown_start_time |-> None,
     checked |-> <<>>]

\* times of the trades: day 0 noon, day 1 noon, day 3 noon
SimTimes == {720, 2160, 5040}

\* a loss past max_daily_loss, a win of the challenge target, and a win of half
\* of it that is closed an hour after its entry
TradeKinds ==
    { Trade(t, None, p) : t \in SimTimes, p \in {-60, 60} }
    \cup { Trade(t, t + 60, 30) : t \in SimTimes }

RECURSIVE SeqsUpTo(_, _)
SeqsUpTo(S, n) ==
    IF n = 0 THEN {<<>>}
    ELSE LET shorter == SeqsUpTo(S, n - 1)
         IN shorter
            \cup { Append(q, x) : q \in { r \in shorter : Len(r) = n - 1 }, x \in S }

SimStages == {"challenge", "verification", "funded"}

\* a simulator built on one of the rule specifications; nothing else is in use
SimulatorInit(rule_specs) ==
    /\ rule_spec \in rule_specs
    /\ state = InitialRuleState(rule_spec, 720, rule_spec.account_size)
    /\ governor = NewGovernor
    /\ decision = NoDecision
    /\ call = [op |-> "none", intent |-> NoIntent, was_disabled |-> FALSE]
    /\ ExecIdle
    /\ SafeIdle
    /\ BarIdle
    /\ LoopIdle
    /\ JournalIdle
    /\ DriftIdle
    /\ ConnIdle
    /\ SimIdle

SimInit == SimulatorInit({ [BaseRuleSpec EXCEPT !.stage = st] : st \in SimStages })

\* simulate_trades(trades, initial_balance) up to the loop
SimulateTrades ==
    \E trades \in SeqsUpTo(TradeKinds, MaxTrades), wall \in SimTimes :
        LET ordered == sorted(trades, [k \in 1..Len(trades) |-> trades[k].entry_time])
            now == IF ordered # <<>> THEN ordered[1].entry_time ELSE wall
        IN /\ sim.pc = "idle"
           /\ sim' = [NewRun(rule_spec, "trades", now, rule_spec.account_size)
                         EXCEPT !.pc = "trades"] @@ [ordered |-> ordered]
           /\ UNCHANGED <<govVars, execVars, safeVars, barVars, loopVars,
                          journalVars, driftVars, connVars>>

\* one iteration of the loop over the ordered trades
SimTradeStep ==
    /\ sim.pc = "trades"
    /\ sim.i < Len(sim.ordered)
    /\ LET trade == sim.ordered[sim.i + 1]
           rolls == needs_day_reset(trade.entry_time, sim.day_start_time)
           rolled == IF rolls
                     THEN [sim EXCEPT !.day_start_time = day_start_for(trade.entry_time),
                                      !.day_start_equity = sim.equity,
                                      !.min_equity_intraday = sim.equity]
                     ELSE sim
           equity == sim.equity + trade.profit
           now == IF trade.exit_time # None THEN trade.exit_time ELSE trade.entry_time
           run == Headroom(rule_spec, rolled, now, equity)
           built == SimRuleState(now, equity, equity, 0, 0, 0, run.day_start_equity,
                                 run.day_start_time, run.initial_balance,
                                 { sim.ordered[k].entry_time : k \in 1..Len(sim.ordered) },
                                 run.stage_start_time, run.drawdown_start_time, None, 0)
           checked == update_drawdown_start(built, rule_spec.drawdown_limit_pct)
           current_violations == check_violation(rule_spec, checked)
           next == [run EXCEPT !.i = sim.i + 1, !.now = now, !.equity = equity,
                               !.balance = equity,
                               !.drawdown_start_time = checked.drawdown_start_time,
                               !.violations = @ \o current_violations,
                               !.checked = Append(@, check_violation_state(rule_spec, checked))]
       IN sim' = IF current_violations # <<>>
                 THEN [next EXCEPT !.pc = "returned"] @@
                      [state |-> check_violation_state(rule_spec, checked),
                       result |-> finalize_result(rule_spec,
                                      check_violation_state(rule_spec, checked),
                                      next.violations, next,
                                      trading_day_count(checked.trades))]
                 ELSE next
    /\ UNCHANGED <<govVars, execVars, safeVars, barVars, loopVars,
                   journalVars, driftVars, connVars>>

\* the loop ran out of trades: final_state and the result
SimTradesReturn ==
    /\ sim.pc = "trades"
    /\ sim.i = Len(sim.ordered)
    /\ LET final_state ==
               SimRuleState(sim.now, sim.equity, sim.balance, 0, 0, 0, sim.day_start_equity,
                            sim.day_start_time, sim.initial_balance,
                            { sim.ordered[k].entry_time : k \in 1..Len(sim.ordered) },
                            sim.stage_start_time, sim.drawdown_start_time, None, 0)
       IN sim' = [sim EXCEPT !.pc = "returned"] @@
                 [state |-> final_state,
                  result |-> finalize_result(rule_spec, final_state, sim.violations, sim,
                                             trading_day_count(final_state.trades))]
    /\ UNCHANGED <<govVars, execVars, safeVars, barVars, loopVars,
                   journalVars, driftVars, connVars>>

TradesNext == SimulateTrades \/ SimTradeStep \/ SimTradesReturn

SpecTrades == SimInit /\ [][TradesNext]_vars

\* ---------------------------------------------------------------------------
\* Evaluation simulator (simulator/evaluator.py): simulate_signals
\* Prices are in points and a size is money per point, so a P&L is an integer.
\* ---------------------------------------------------------------------------

MaxBars == 3

PriceBar(time, symbol, bid, ask, high, low) ==
    [time |-> time, symbol |-> symbol, bid |-> bid, ask |-> ask,
     high |-> high, low |-> low]

\* a Signal without a price; symbol NoneStr stands for the bar's symbol
Signal(time, action, side, size, symbol) ==
    [time |-> time, action |-> action, side |-> side, size |-> size,
     symbol |-> symbol]

OpenPosition(symbol, side, size, entry_time, entry_price, mark_price) ==
    [symbol |-> symbol, side |-> side, size |-> size, entry_time |-> entry_time,
     entry_price |-> entry_price, mark_price |-> mark_price]

\* spec.fee_schedule(symbol)
fee_schedule(sp, symbol) == sp.fees[symbol]

direction(side) == IF side = "buy" THEN 1 ELSE -1

\* the half of the round-trip commission charged at an open and at a close
half_commission(sp, symbol, size) ==
    (fee_schedule(sp, symbol).commission_usd_per_lot_round_trip * size) \div 2

RECURSIVE SwapFees(_, _)
\* the swap charged at a day roll, summed over the open positions
SwapFees(sp, open_positions) ==
    IF open_positions = <<>> THEN 0
    ELSE fee_schedule(sp, Head(open_positions).symbol).swap_usd_per_lot_per_day
             * Head(open_positions).size
         + SwapFees(sp, Tail(open_positions))

RECURSIVE FloatingPnl(_)
FloatingPnl(open_positions) ==
    IF open_positions = <<>> THEN 0
    ELSE (Head(open_positions).mark_price - Head(open_positions).entry_price)
             * Head(open_positions).size * direction(Head(open_positions).side)
         + FloatingPnl(Tail(open_positions))

\* a mark at the bar's close whatever the mode (mutation of mark_price)
mark_price_mid(sp, pos, price_bar) ==
    IF pos.side = "buy" THEN price_bar.bid ELSE price_bar.ask

\* the mark of a position of the bar's symbol
mark_price(sp, pos, price_bar) ==
    IF sp.mtm_mode = "worst_ohlc"
    THEN IF pos.side = "buy"
         THEN IF price_bar.low # None THEN price_bar.low ELSE price_bar.bid
         ELSE IF price_bar.high # None THEN price_bar.high ELSE price_bar.ask
    ELSE IF pos.side = "buy" THEN price_bar.bid ELSE price_bar.ask

MarkToMarket(sp, open_positions, price_bar) ==
    [k \in 1..Len(open_positions) |->
        IF open_positions[k].symbol # price_bar.symbol THEN open_positions[k]
        ELSE [open_positions[k] EXCEPT !.mark_price = mark_price(sp, open_positions[k], price_bar)]]

\* the index of the first open position a close signal matches, 0 when none
MatchingPosition(open_positions, symbol, side) ==
    LET hits == { k \in 1..Len(open_positions) :
                     open_positions[k].symbol = symbol /\ open_positions[k].side = side }
    IN IF hits = {} THEN 0 ELSE CHOOSE k \in hits : \A h \in hits : k <= h

RemoveAt(seq, k) == SubSeq(seq, 1, k - 1) \o SubSeq(seq, k + 1, Len(seq))

\* one signal applied to the locals of the call
ApplySignal(sp, run, signal, price_bar) ==
    LET symbol == IF signal.symbol # NoneStr THEN signal.symbol ELSE price_bar.symbol
        entry_price == IF signal.side = "buy" THEN price_bar.ask ELSE price_bar.bid
        k == MatchingPosition(run.open_positions, symbol, signal.side)
        position == run.open_positions[k]
        exit_price == IF position.side = "buy" THEN price_bar.bid ELSE price_bar.ask
        profit == (exit_price - position.entry_price) * position.size
                      * direction(position.side)
    IN IF signal.action = "open"
       THEN [run EXCEPT
                !.open_positions = Append(@, OpenPosition(symbol, signal.side, signal.size,
                                                          signal.time, entry_price, entry_price)),
                !.initiated_times = Append(@, signal.time),
                !.commission_total = @ + half_commission(sp, symbol, signal.size)]
       ELSE IF signal.action = "close" /\ k # 0
       THEN [run EXCEPT
                !.balance = @ + profit,
                !.commission_total = @ + half_commission(sp, symbol, position.size),
                !.closed_trades = Append(@, Trade(position.entry_time, signal.time, profit)),
                !.open_positions = RemoveAt(@, k)]
       ELSE run

RECURSIVE ApplySignals(_, _, _, _)
ApplySignals(sp, run, signals, price_bar) ==
    IF signals = <<>> THEN run
    ELSE ApplySignals(sp, ApplySignal(sp, run, Head(signals), price_bar), Tail(signals), price_bar)

\* signals_by_time.get(bar.time, []): the signals of that time, in input order
SignalsAt(signals, time) == SelectSeq(signals, LAMBDA sg : sg.time = time)

Last(seq) == seq[Len(seq)]

\* the RuleState built after a bar, and after the last one
SignalsRuleState(run, now) ==
    SimRuleState(now, run.equity, run.balance, run.floating_pnl, run.commission_total,
                 run.swap_total, run.day_start_equity, run.day_start_time,
                 run.initial_balance,
                 { run.closed_trades[k].entry_time : k \in 1..Len(run.closed_trades) },
                 run.stage_start_time, run.drawdown_start_time,
                 IF run.initiated_times # <<>> THEN Last(run.initiated_times) ELSE None,
                 Len(run.open_positions))

\* bars of the model: 09:00 and 09:15 of day 0, 00:05 of day 1
BarTimes == {540, 555, 1445}

\* a flat bar, a falling bar whose low is under its close, a rising bar whose
\* high is over its close, and a bar of another symbol
BarKinds ==
    { PriceBar(540, "EURUSD", 10, 10, 10, 10),
      PriceBar(555, "EURUSD", 5, 5, 5, 4),
      PriceBar(555, "EURUSD", 11, 11, 12, 11),
      PriceBar(555, "GBPUSD", 10, 10, 10, 10),
      PriceBar(1445, "EURUSD", 5, 5, 5, 4),
      PriceBar(1445, "EURUSD", 10, 10, 10, 10) }

SignalLists ==
    { <<>>,
      << Signal(540, "open", "buy", 10, "EURUSD") >>,
      << Signal(540, "open", "sell", 10, NoneStr) >>,
      << Signal(540, "open", "buy", 10, "EURUSD"), Signal(555, "close", "buy", 10, "EURUSD") >>,
      << Signal(540, "open", "sell", 10, "EURUSD"), Signal(1445, "close", "sell", 10, NoneStr) >>,
      << Signal(555, "close", "buy", 10, "EURUSD") >> }

\* commission of 1 per lot round trip and swap of 1 per lot and day on EURUSD
SimFees ==
    [symbol \in {"EURUSD", "GBPUSD"} |->
        IF symbol = "EURUSD"
        THEN [commission_usd_per_lot_round_trip |-> 1, swap_usd_per_lot_per_day |-> 1]
        ELSE [commission_usd_per_lot_round_trip |-> 0, swap_usd_per_lot_per_day |-> 0]]

SignalsInit ==
    SimulatorInit({ [BaseRuleSpec EXCEPT !.stage = st, !.mtm_mode = m, !.fees = SimFees] :
                       st \in {"challenge", "funded"}, m \in {"worst_ohlc", "mid"} })

\* simulate_signals(price_series, signals, initial_balance) up to the loop
SimulateSignals ==
    \E price_series \in SeqsUpTo(BarKinds, MaxBars), signals \in SignalLists :
        LET bars == sorted(price_series,
                           [k \in 1..Len(price_series) |-> price_series[k].time])
        IN /\ sim.pc = "idle"
           /\ price_series # <<>>
           /\ sim' = [NewRun(rule_spec, "bars", bars[1].time, rule_spec.account_size)
                         EXCEPT !.pc = "bars"] @@
                     [bars |-> bars, signals |-> signals,
                      commission_total |-> 0, swap_total |-> 0, floating_pnl |-> 0,
                      open_positions |-> <<>>, closed_trades |-> <<>>,
                      initiated_times |-> <<>>]
           /\ UNCHANGED <<govVars, execVars, safeVars, barVars, loopVars,
                          journalVars, driftVars, connVars>>

\* simulate_signals([], signals, initial_balance) is simulate_trades([], ...)
SimulateSignalsNoBars ==
    \E signals \in SignalLists, wall \in SimTimes :
        /\ sim.pc = "idle"
        /\ sim' = [NewRun(rule_spec, "trades", wall, rule_spec.account_size)
                      EXCEPT !.pc = "trades"] @@ [ordered |-> <<>>]
        /\ UNCHANGED <<govVars, execVars, safeVars, barVars, loopVars,
                       journalVars, driftVars, connVars>>

\* one iteration of the loop over the bars
SimBarStep ==
    /\ sim.pc = "bars"
    /\ sim.i < Len(sim.bars)
    /\ LET price_bar == sim.bars[sim.i + 1]
           swapped == sim.swap_total + SwapFees(rule_spec, sim.open_positions)
           rolled == IF needs_day_reset(price_bar.time, sim.day_start_time)
                     THEN [sim EXCEPT
                              !.swap_total = swapped,
                              !.equity = sim.balance + sim.floating_pnl
                                             - sim.commission_total - swapped,
                              !.day_start_time = day_start_for(price_bar.time),
                              !.day_start_equity = sim.balance + sim.floating_pnl
                                                       - sim.commission_total - swapped,
                              !.min_equity_intraday = sim.balance + sim.floating_pnl
                                                          - sim.commission_total - swapped]
                     ELSE sim
           traded == ApplySignals(rule_spec, rolled, SignalsAt(sim.signals, price_bar.time), price_bar)
           marked == MarkToMarket(rule_spec, traded.open_positions, price_bar)
           floating_pnl == FloatingPnl(marked)
           equity == traded.balance + floating_pnl - traded.commission_total
                         - traded.swap_total
           run == [Headroom(rule_spec, traded, price_bar.time, equity) EXCEPT
                      !.open_positions = marked, !.floating_pnl = floating_pnl,
                      !.equity = equity, !.now = price_bar.time, !.i = sim.i + 1]
           checked == update_drawdown_start(SignalsRuleState(run, price_bar.time),
                                            rule_spec.drawdown_limit_pct)
           current_violations == check_violation(rule_spec, checked)
           next == [run EXCEPT !.drawdown_start_time = checked.drawdown_start_time,
                               !.violations = @ \o current_violations,
                               !.checked = Append(@, check_violation_state(rule_spec, checked))]
       IN sim' = IF current_violations # <<>>
                 THEN [next EXCEPT !.pc = "returned"] @@
                      [state |-> check_violation_state(rule_spec, checked),
                       result |-> finalize_result(rule_spec,
                                      check_violation_state(rule_spec, checked),
                                      next.violations, next,
                                      trading_day_count(Range(next.initiated_times)))]
                 ELSE next
    /\ UNCHANGED <<govVars, execVars, safeVars, barVars, loopVars,
                   journalVars, driftVars, connVars>>

\* the loop ran out of bars: final_state and the result
SimSignalsReturn ==
    /\ sim.pc = "bars"
    /\ sim.i = Len(sim.bars)
    /\ LET final_state == SignalsRuleState(sim, Last(sim.bars).time)
       IN sim' = [sim EXCEPT !.pc = "returned"] @@
                 [state |-> final_state,
                  result |-> finalize_result(rule_spec, final_state, sim.violations, sim,
                                             trading_day_count(Range(sim.initiated_times)))]
    /\ UNCHANGED <<govVars, execVars, safeVars, barVars, loopVars,
                   journalVars, driftVars, connVars>>

SignalsNext ==
    \/ SimulateSignals
    \/ SimulateSignalsNoBars
    \/ SimBarStep
    \/ SimSignalsReturn
    \/ SimTradesReturn

SpecSignals == SignalsInit /\ [][SignalsNext]_vars

\* C34: for every stage, simulate_trades and simulate_signals return
\* passed = TRUE exactly when no violation was recorded, the stage is funded or
\* the effective equity less initial_balance has reached the profit target, and
\* trading_days >= min_trading_days; the run stops at the first step whose
\* check_violation is non-empty and failure_reason names the first violation.
C34_PassedIffCleanTargetAndDays ==
    sim.pc = "returned" =>
        LET r == sim.result
            s == sim.state
            costs == s.commission + s.swap + s.other_fees
            equity == IF s.floating_pnl # 0 \/ costs # 0
                      THEN s.balance + s.floating_pnl - costs
                      ELSE s.equity
            target == CASE rule_spec.stage = "challenge" -> rule_spec.challenge_profit_target
                        [] rule_spec.stage = "verification" -> rule_spec.verification_profit_target
                        [] OTHER -> 0
        IN /\ r.passed <=>
                  /\ r.violations = <<>>
                  /\ (rule_spec.stage = "funded" \/ equity - s.initial_balance >= target)
                  /\ r.trading_days >= rule_spec.min_trading_days
           /\ \A k \in 1..Len(sim.checked) :
                  check_violation(rule_spec, sim.checked[k]) # <<>> => k = Len(sim.checked)
           /\ r.violations # <<>> =>
                  /\ r.violations = check_violation(rule_spec, sim.checked[Len(sim.checked)])
                  /\ r.failure_reason = "Violation: " \o r.violations[1]

\* C35: in simulate_signals with mtm_mode = worst_ohlc, after every bar each
\* open long of the bar's symbol is marked at bar.low and each open short at
\* bar.high, and equity = balance + floating_pnl - commission - swap; at a day
\* roll day_start_equity is reset to that equity with the unrealized P&L in it;
\* if at a bar day_start_equity - equity >= max_daily_loss, a DAILY_LOSS_LIMIT
\* breach event with that bar's time is recorded and the result has
\* passed = FALSE, whether or not a position was closed.
C35_WorstCaseMarkBreachesDailyLimit ==
    [][(rule_spec.mtm_mode = "worst_ohlc" /\ sim.pc = "bars" /\ sim'.i = sim.i + 1) =>
          LET price_bar == sim.bars[sim'.i]
              s == Last(sim'.checked)
              rolls == CivilDay(price_bar.time) > CivilDay(sim.day_start_time)
          IN /\ \A k \in 1..Len(sim'.open_positions) :
                    sim'.open_positions[k].symbol = price_bar.symbol =>
                        sim'.open_positions[k].mark_price =
                            IF sim'.open_positions[k].side = "buy"
                            THEN price_bar.low ELSE price_bar.high
             /\ s.floating_pnl = FloatingPnl(sim'.open_positions)
             /\ s.equity = s.balance + s.floating_pnl - s.commission - s.swap
             /\ rolls => /\ s.day_start_time = LocalMidnight(price_bar.time)
                         /\ s.day_start_equity = sim.balance + sim.floating_pnl
                                                     - sim.commission_total - s.swap
             /\ ~rolls => s.day_start_equity = sim.day_start_equity
             /\ (s.day_start_equity - s.equity >= rule_spec.max_daily_loss) =>
                    /\ \E e \in Range(sim'.breach_events) :
                           e.reason = "DAILY_LOSS_LIMIT" /\ e.time = price_bar.time
                    /\ sim'.pc = "returned"
                    /\ ~sim'.result.passed]_sim

\* C35 witness: a long opened at 10 is marked at the low of 4 of a bar that
\* closes at 5 on the day after its entry; nothing was closed, the day rolled
\* with the swap charged, and the run failed on the daily loss limit
C35_Witness ==
    /\ rule_spec.mtm_mode = "worst_ohlc"
    /\ sim.pc = "returned"
    /\ "closed_trades" \in DOMAIN sim
    /\ sim.closed_trades = <<>>
    /\ Len(sim.open_positions) = 1
    /\ sim.open_positions[1].side = "buy"
    /\ sim.open_positions[1].mark_price = 4
    /\ sim.now = 1445
    /\ sim.swap_total > 0
    /\ ~sim.result.passed
    /\ \E e \in Range(sim.breach_events) : e.reason = "DAILY_LOSS_LIMIT" /\ e.time = 1445

\* ---------------------------------------------------------------------------
\* What the broker answers (execution/engine.py place_order, journal.py)
\* ---------------------------------------------------------------------------

\* the statuses a broker answers an order with
BrokerStatuses == {"rejected", "canceled", "filled", "open", "partial", "submitted"}

\* place_order calls of one run
MaxAnswerCalls == 2

AnswersInit ==
    /\ rule_spec = BaseRuleSpec
    /\ state = InitialRuleState(rule_spec, 720, rule_spec.account_size)
    /\ governor = NewGovernor
    /\ decision = NoDecision
    /\ call = [op |-> "none", intent |-> NoIntent, was_disabled |-> FALSE]
    /\ journal = <<>>
    /\ broker \in {StatusBroker(status) : status \in BrokerStatuses}
                  \cup {PaperBroker(FALSE), PaperBroker(TRUE)}
    /\ engine = NewEngine
    /\ place = IdlePlace
    /\ recon = IdleRecon
    /\ hist = NoHist
    /\ clock = 0
    /\ SafeIdle
    /\ BarIdle
    /\ LoopIdle
    /\ JournalIdle
    /\ DriftIdle
    /\ ConnIdle
    /\ SimIdle

\* engine.place_order(order) called by the bar callback under _run_periodic:
\* what it returns is kept in place; what it raises is caught by the loop,
\* which enables safe mode
AnswerPlace ==
    \E time \in WindowTimes :
      \E order \in WindowOrders(time) :
        LET res == place_order(journal, broker, engine, order, clock)
            on == enable(safe_mode, safe_file, safe_log, "bar loop error", clock)
        IN /\ hist.instance < MaxAnswerCalls
           /\ engine.throttle.last_request_time # None
                  => time >= engine.throttle.last_request_time
           /\ place.order.time # None => time >= place.order.time
           /\ journal' = res.journal
           /\ broker' = res.broker
           /\ engine' = res.engine
           /\ place' = [IdlePlace EXCEPT !.pc = res.outcome, !.order = order,
                                         !.broker_order = res.broker_order,
                                         !.error = res.error, !.log = res.log]
           /\ hist' = [hist EXCEPT
                          !.instance = @ + 1,
                          !.sent = IF res.sent
                                   THEN Append(@, <<clock, duplicate_signature(order)>>)
                                   ELSE @]
           /\ IF res.outcome = "raised"
              THEN /\ safe_mode' = on.safe_mode
                   /\ safe_file' = on.safe_file
                   /\ safe_log' = on.safe_log
              ELSE UNCHANGED <<safe_mode, safe_file, safe_log>>
           /\ UNCHANGED <<recon, clock, safe_call, safe_hist>>
           /\ UNCHANGED <<govVars, barVars, loopVars, journalVars, driftVars,
                          connVars, simVars>>

AnswersNext ==
    \/ AnswerPlace
    \/ WindowTick

SpecAnswers == AnswersInit /\ [][AnswersNext]_vars

\* the journal's list_open() has a row of this client_order_id
InListOpen(j, client_order_id) ==
    \E i \in 1..Len(list_open(j)) : list_open(j)[i].client_order_id = client_order_id

\* C36: when place_order has sent an order to the broker and returned the
\* broker's answer, the journal row of the order carries the answer's
\* broker_order_id and status; a rejected, canceled or filled order is not in
\* list_open(), a submitted, open or partial one is; and a rejection is logged
\* and returned: nothing is raised and safe mode stays as it was
C36_JournalCarriesBrokerAnswer ==
    [][Len(hist'.sent) > Len(hist.sent) =>
         LET id == place'.order.client_order_id
             answer == place'.broker_order
             row == JournalGet(journal', id)
         IN /\ place'.pc = "returned"
            /\ place'.error = NoneStr
            /\ answer.client_order_id = id
            /\ "answers" \in DOMAIN broker => answer.status = broker.answers
            /\ row.broker_order_id = answer.broker_order_id
            /\ row.status = answer.status
            /\ answer.status \in {"rejected", "canceled", "filled"}
                   => ~InListOpen(journal', id)
            /\ answer.status \in {"submitted", "open", "partial"}
                   => InListOpen(journal', id)
            /\ answer.status = "rejected"
                   => place'.log = <<"order_submitted", "order_rejected">>
            /\ safe_mode' = safe_mode
            /\ safe_log' = safe_log]_hist

\* a rejected order after place_order returned it: recorded as rejected under
\* the broker's id, out of list_open(), safe mode off
C36_Witness ==
    /\ place.pc = "returned"
    /\ place.broker_order = BrokerOrder(<<"rejected", 1>>, "A", "rejected")
    /\ JournalGet(journal, "A").status = "rejected"
    /\ JournalGet(journal, "A").broker_order_id = <<"rejected", 1>>
    /\ ~InListOpen(journal, "A")
    /\ ~safe_mode.state.enabled

\* ---------------------------------------------------------------------------
\* Several intents against one snapshot (risk/governor.py pre_trade, as the
\* bar task of run_service_loop.py calls it for every intent of a bar)
\* ---------------------------------------------------------------------------

AdmitInit ==
    /\ rule_spec \in RuleSpecs
    /\ state = InitialRuleState(rule_spec, 720, rule_spec.account_size)
    /\ governor = NewGovernor
    /\ decision = NoDecision
    /\ call = [op |-> "none", intent |-> NoIntent, was_disabled |-> FALSE,
               admitted |-> 0]
    /\ ExecIdle
    /\ SafeIdle
    /\ BarIdle
    /\ LoopIdle
    /\ JournalIdle
    /\ DriftIdle
    /\ ConnIdle
    /\ SimIdle

\* a fast_loop iteration refreshes the snapshot (the account into state_cache,
\* day roll, drawdown start, governor.evaluate_state): a new sequence of
\* intents begins
RefreshSnapshot ==
    \E now \in Instants, snap \in Snapshots :
        LET written == [state EXCEPT !.now = now, !.equity = snap.equity,
                                     !.balance = snap.equity - snap.floating_pnl,
                                     !.floating_pnl = snap.floating_pnl]
            rolled == update_drawdown_start(roll_day_if_needed(written),
                                            rule_spec.drawdown_limit_pct)
            r == evaluate_state(rule_spec, governor, rolled)
        IN /\ now >= state.now
           /\ state' = r.state
           /\ governor' = r.gov
           /\ call' = [op |-> "fast_loop", intent |-> NoIntent,
                       was_disabled |-> governor.disabled, admitted |-> 0]
           /\ decision' = r.decision
           /\ UNCHANGED rule_spec
           /\ UNCHANGED nonGovVars

\* governor.pre_trade(intent, state_cache) for the next intent of the bar;
\* call.admitted sums the estimated_risk of the non-reduce-only intents
\* allowed since the snapshot was written
SnapshotPreTrade ==
    \E order_intent \in Intents :
        LET r == pre_trade(rule_spec, governor, order_intent, state)
        IN /\ governor' = r.gov
           /\ state' = r.state
           /\ decision' = r.decision
           /\ call' = [op |-> "pre_trade", intent |-> order_intent,
                       was_disabled |-> governor.disabled,
                       admitted |-> IF r.decision.allow /\ ~order_intent.reduce_only
                                    THEN call.admitted + order_intent.estimated_risk
                                    ELSE call.admitted]
           /\ call.admitted < rule_spec.max_total_loss
           /\ UNCHANGED rule_spec
           /\ UNCHANGED nonGovVars

AdmitNext ==
    \/ RefreshSnapshot
    \/ SnapshotPreTrade

SpecAdmit == AdmitInit /\ [][AdmitNext]_vars

\* C37: the estimated_risk of the non-reduce-only intents that pre_trade has
\* allowed against one snapshot sums to less than remaining_daily minus the
\* daily buffer and to less than remaining_max minus the max buffer.
C37_AdmittedRisksStayBelowMargin ==
    (call.op = "pre_trade" /\ call.admitted > 0) =>
        LET headroom == rule_headroom(rule_spec, state)
            buffers == effective_buffers(rule_spec, state)
        IN /\ call.admitted < headroom.daily - buffers.daily_buffer
           /\ call.admitted < headroom.max - buffers.max_buffer

\* ---------------------------------------------------------------------------
\* Reconcile passes feeding the drift tracker (execution/engine.py reconcile,
\* run_service_loop.py on_reconcile, runtime/drift.py)
\* ---------------------------------------------------------------------------

\* a reconcile pass of the service: engine.reconcile(), then
\* on_reconcile(report) = drift_tracker.update(report), at second clock
ReconcilePass ==
    LET r == reconcile(journal, broker)
        report == DriftReport(r.report.missing_in_broker, r.report.missing_in_journal)
    IN \E keys \in KeyOrders(current_keys(report)) :
         LET tr == update([state |-> drift.state, log |-> drift.log,
                           safe_mode |-> safe_mode, safe_file |-> safe_file,
                           safe_log |-> safe_log],
                          report, keys, clock)
         IN /\ drift.updates < MaxDriftUpdates
            /\ journal' = r.journal
            /\ recon' = [IdleRecon EXCEPT
                            !.pc = "returned",
                            !.missing_in_broker = r.report.missing_in_broker,
                            !.missing_in_journal = r.report.missing_in_journal,
                            !.reconciled_closed = r.report.reconciled_closed,
                            !.reconciled_added = r.report.reconciled_added]
            /\ hist' = [hist EXCEPT !.reconciles =
                            IF jcall.op = "reconcile" THEN @ + 1 ELSE 1]
            /\ jcall' = ReconCall("reconcile", NoneStr)
            /\ drift' = [drift EXCEPT !.state = tr.state, !.log = tr.log,
                                      !.report = report, !.now = clock,
                                      !.updates = @ + 1]
            /\ safe_mode' = tr.safe_mode
            /\ safe_file' = tr.safe_file
            /\ safe_log' = tr.safe_log
            /\ UNCHANGED <<broker, engine, place, clock, safe_call, safe_hist>>
            /\ UNCHANGED <<govVars, barVars, loopVars, connVars, simVars>>

\* the order the service places between passes
PassOrder == ExecutionOrder("A", "A", "buy", 720)

\* a journal write place_order makes for the order
PassJournalWrite ==
    /\ \/ journal' = record_intent(journal, PassOrder.client_order_id,
                                   asdict(PassOrder)).journal
       \/ \E status \in {"submitted", "filled"} :
              /\ JournalHas(journal, PassOrder.client_order_id)
              /\ journal' = mark_status(journal, PassOrder.client_order_id, status)
    /\ jcall' = ReconCall("write", PassOrder.client_order_id)
    /\ UNCHANGED <<broker, engine, place, recon, hist, clock>>
    /\ UNCHANGED <<govVars, safeVars, barVars, loopVars, driftVars, connVars, simVars>>

\* the broker's book changes: the order is placed or cancelled
PassBrokerChange ==
    /\ \/ broker' = paper_place_order(broker, PassOrder).broker
       \/ /\ BrokerHas(broker, PassOrder.client_order_id)
          /\ broker' = paper_cancel_order(
                           broker, BrokerGet(broker, PassOrder.client_order_id).broker_order_id)
    /\ jcall' = ReconCall("broker", PassOrder.client_order_id)
    /\ UNCHANGED <<journal, engine, place, recon, hist, clock>>
    /\ UNCHANGED <<govVars, safeVars, barVars, loopVars, driftVars, connVars, simVars>>

PassesNext ==
    \/ ReconcilePass
    \/ PassJournalWrite
    \/ PassBrokerChange
    \/ DriftTick

SpecPasses == ReconInit /\ [][PassesNext]_vars

\* C38: of two reconcile passes with no journal write and no broker change
\* between them, the second reports none of the ids the first reported, so the
\* tracker fed the two reports drops every key of the first at the second
\* update with drift_resolved and emits no drift_unresolved, however long the
\* passes are apart.
C38_NextPassReportsNothingAgain ==
    [][(jcall.op = "reconcile" /\ jcall'.op = "reconcile") =>
          /\ Listed(recon'.missing_in_broker) \cap Listed(recon.missing_in_broker) = {}
          /\ Listed(recon'.missing_in_journal) \cap Listed(recon.missing_in_journal) = {}
          /\ \A key \in current_keys(drift.report) :
                 /\ key \in TrackedKeys(drift.state)
                 /\ key \notin TrackedKeys(drift'.state)
                 /\ CountOf(EmittedByUpdate, <<"drift_resolved", key>>) = 1
          /\ \A k \in 1..Len(EmittedByUpdate) : EmittedByUpdate[k][1] # "drift_unresolved"
          /\ safe_mode' = safe_mode]_<<jcall, hist>>

\* two passes max_age_seconds or more apart: the first reported A and X, the
\* second resolved both keys
C38_Witness ==
    /\ jcall.op = "reconcile"
    /\ hist.reconciles = 2
    /\ drift.updates = 2
    /\ clock >= 720 + max_age_seconds
    /\ drift.state = <<>>
    /\ CountOf(drift.log, <<"drift_resolved", KeyA>>) = 1
    /\ CountOf(drift.log, <<"drift_resolved", DriftKey("missing_in_journal", "X")>>) = 1
    /\ ~safe_mode.state.enabled

\* ---------------------------------------------------------------------------
\* The two drawdown violations (rule_engine/engine.py check_violation,
\* risk/governor.py evaluate_state)
\* ---------------------------------------------------------------------------

\* the positions of a code in a violation list
PositionsOf(violations, code) == { i \in 1..Len(violations) : violations[i] = code }

\* C39: in every list check_violation returns, PROLONGED_DRAWDOWN comes after an
\* INTERNAL_DRAWDOWN_LIMIT of the same list; so an evaluation of a governor that
\* is not disabled, on a state at or past drawdown_limit_pct, disables it with
\* the message of the first violation of a list that holds
\* INTERNAL_DRAWDOWN_LIMIT, and no evaluation disables a governor with the
\* message of PROLONGED_DRAWDOWN.
C39_ProlongedDrawdownFollowsInternalLimit ==
    /\ [](LET violations == check_violation(rule_spec, state)
          IN \A i \in PositionsOf(violations, "PROLONGED_DRAWDOWN") :
                 \E k \in PositionsOf(violations, "INTERNAL_DRAWDOWN_LIMIT") : k < i)
    /\ [][(call'.op \in {"evaluate_state", "pre_trade"} /\ ~governor.disabled) =>
              /\ InDrawdown(state', rule_spec.drawdown_limit_pct) =>
                     /\ governor'.disabled
                     /\ PositionsOf(check_violation(rule_spec, state'),
                                    "INTERNAL_DRAWDOWN_LIMIT") # {}
                     /\ governor'.disable_reason
                            = ViolationMessage(Head(check_violation(rule_spec, state')))
              /\ governor'.disabled =>
                     governor'.disable_reason # ViolationMessage("PROLONGED_DRAWDOWN")
          ]_<<governor, call>>

\* a governor disabled by the internal drawdown limit the day before, on a
\* state still in drawdown: check_violation now lists both codes
C39_Witness ==
    /\ governor.disabled
    /\ governor.disable_reason = ViolationMessage("INTERNAL_DRAWDOWN_LIMIT")
    /\ call.op = "evaluate_state"
    /\ state.drawdown_start_time # None
    /\ PositionsOf(check_violation(rule_spec, state), "PROLONGED_DRAWDOWN") # {}
    /\ PositionsOf(check_violation(rule_spec, state), "INTERNAL_DRAWDOWN_LIMIT") # {}

\* C40: in simulate_trades the RuleState checked after the i-th trade holds the
\* trades 1..i of the ordered list and no later one, a run that stops early
\* reports the trading days of the trades it applied, and a step whose trade
\* comes max_days_without_trade or more civil days after the trade before it
\* reports INACTIVITY_LIMIT.
C40_CheckedStateHoldsAppliedTrades ==
    sim.pc \in {"trades", "returned"} =>
        /\ \A i \in 1..Len(sim.checked) :
               /\ sim.checked[i].trades = { sim.ordered[k].entry_time : k \in 1..i }
               /\ (/\ i > 1
                   /\ rule_spec.max_days_without_trade > 0
                   /\ trading_day_for(sim.ordered[i].entry_time)
                          - trading_day_for(sim.ordered[i - 1].entry_time)
                              >= rule_spec.max_days_without_trade)
                      => \E v \in 1..Len(check_violation(rule_spec, sim.checked[i])) :
                             check_violation(rule_spec, sim.checked[i])[v] = "INACTIVITY_LIMIT"
        /\ (sim.pc = "returned" /\ sim.result.violations # <<>>) =>
               sim.result.trading_days
                   = trading_day_count({ sim.ordered[k].entry_time : k \in 1..sim.i })

====
